---- MODULE Spec2Model ----
(***************************************************************************)
(* hal9999: VM pool manager, task manager, event/log writers and the       *)
(* orchestrator's executeTask / recover, as one state machine.             *)
(*                                                                         *)
(* Every coroutine (an executeTask, a resumeTask, the recover caller, an   *)
(* idle-reap timer) runs from one `await` to the next as one atomic step;  *)
(* steps of different coroutines interleave freely.  An `await` whose      *)
(* continuation touches no shared state before the next `await` is merged  *)
(* with that next step.                                                    *)
(*                                                                         *)
(* Time is counted in units of 50 s.  The clock only moves by Tick, a      *)
(* pause of PauseUnits units.                                              *)
(***************************************************************************)
EXTENDS Integers, Sequences, FiniteSets, TLC

\* ---------------------------------------------------------------- bounds
NTasks == 2          \* tasks ever submitted
MaxVms == 2          \* vms rows ever inserted
MaxTicks == 1        \* pauses of the clock
MaxFaults == 1       \* provider / ssh calls that raise
MaxResume == 1       \* resumeTask coroutines ever spawned
MaxRecover == 1      \* recover() calls
MaxOut == 1          \* chunks the agent writes to output.log
NReaders == 2        \* tailLog calls
MaxLen == 2          \* characters in the done sentinel

\* ------------------------------------------------------ program constants
NULL == 0                 \* SQL NULL / undefined (ids and timestamps start at 1)
STALE_TASK_MAX == 12      \* 600_000 ms, releaseOrphans' staleCutoff
STALE_PROVISION_MAX == 12 \* 600_000 ms, reapStaleProvisioning's maxAgeMs
AGENT_TIMEOUT == 12       \* 600_000 ms, agent.timeoutMs default
maxAttempts == 2          \* provisionWithRetry
PauseUnits == 13          \* 650 s: waitForSsh 180 + cleanup 30 + clone 120 +
                          \* install 300 + rev-parse 10 + branch setup 10

Tasks == 1..NTasks
Rows == 1..MaxVms
RecId == 0
Resumers == (NTasks + 1)..(NTasks + MaxResume)
Procs == {RecId} \cup Tasks \cup Resumers
Readers == 1..NReaders

VARIABLES
  config,   \* PoolConfig.slots: sequence of ProviderSlot
  vms,      \* table vms: row index -> VmRow ("absent" = no such row)
  tasks,    \* table tasks: task id -> TaskRow ("absent" = no such row)
  inst,     \* provider side: row index -> "none" | "pending" | "active" | "gone"
  co,       \* coroutines: Procs -> frame
  timers,   \* scheduleIdleReap timers: set of [vm, due]
  tdest,    \* idle-reap timers awaiting destroyInstance: set of row indexes
  pend,     \* fire-and-forget provisionVmForSlot calls awaiting createInstance
  events,   \* data/events/<task>.jsonl: task -> sequence of envelopes
  logs,     \* data/logs/<task>.log: task -> sequence of chunks
  now,      \* Date.now()
  faults,   \* calls that raised so far
  nrec,     \* recover() calls so far
  rd,       \* tailLog calls: Readers -> frame
  sameMs,   \* Date.now() gives one value to the provisionVmForSlot calls of one ensureWarm
  wrapper   \* run.sh on the VM: the wrapper script of generateWrapperScript

vars == <<config, vms, tasks, inst, co, timers, tdest, pend, events, logs, now, faults, nrec, rd, sameMs, wrapper>>

\* ------------------------------------------------------------------ rows
Active == {"provisioning", "ready", "assigned"}
Terminal == {"destroyed", "error"}

AbsentVm ==
  [status |-> "absent", provider |-> "none", task_id |-> NULL,
   idle_since |-> NULL, created_at |-> NULL, real |-> FALSE]

AbsentTask ==
  [status |-> "absent", vm_id |-> NULL, updated_at |-> NULL, started_at |-> NULL,
   completed_at |-> NULL, exit_code |-> <<>>, result |-> "none"]

\* A VmRow object held by a coroutine: the row's index plus the columns as read.
\* `real` says whether the id it carries is the provider's id or the temporary label.
Snap(V, r) ==
  [r |-> r, real |-> V[r].real, status |-> V[r].status, provider |-> V[r].provider,
   task_id |-> V[r].task_id, idle_since |-> V[r].idle_since]

NoRef ==
  [r |-> 0, real |-> FALSE, status |-> "absent", provider |-> "none",
   task_id |-> NULL, idle_since |-> NULL]

\* WHERE id = ?: the row the id names, if it still carries that id.
Match(V, ref) == ref.r \in Rows /\ V[ref.r].status # "absent" /\ V[ref.r].real = ref.real

RECURSIVE SeqOfSet(_)
SeqOfSet(S) ==
  IF S = {} THEN <<>>
  ELSE LET m == CHOOSE x \in S : \A y \in S : x <= y IN <<m>> \o SeqOfSet(S \ {m})

\* --------------------------------------------------------------- config
NoSlot == [name |-> "none", maxPoolSize |-> 0, priority |-> 0, idleTimeoutMs |-> 0, minReady |-> 0]

slotsByName(name) ==
  IF \E i \in DOMAIN config : config[i].name = name
  THEN config[CHOOSE i \in DOMAIN config : config[i].name = name]
  ELSE NoSlot

\* slot?.idleTimeoutMs ?? 0
idleTimeoutOf(provider) == slotsByName(provider).idleTimeoutMs

RECURSIVE InsertSlotBefore(_, _)
InsertSlotBefore(s, x) ==
  IF s = <<>> THEN <<x>>
  ELSE IF Head(s).priority < x.priority THEN <<Head(s)>> \o InsertSlotBefore(Tail(s), x)
  ELSE <<x>> \o s

RECURSIVE InsertSlot(_, _)
InsertSlot(s, x) ==
  IF s = <<>> THEN <<x>>
  ELSE IF Head(s).priority <= x.priority THEN <<Head(s)>> \o InsertSlot(Tail(s), x)
  ELSE <<x>> \o s

RECURSIVE SortSlots(_)
SortSlots(s) ==
  IF s = <<>> THEN <<>>
  ELSE InsertSlot(SortSlots(SubSeq(s, 1, Len(s) - 1)), s[Len(s)])

CountActive(V, p) == Cardinality({r \in Rows : V[r].provider = p /\ V[r].status \in Active})

pickSlot(V) ==
  LET sorted == SortSlots(config)
      ok == {i \in DOMAIN sorted : CountActive(V, sorted[i].name) < sorted[i].maxPoolSize}
  IN IF ok = {} THEN NoSlot ELSE sorted[CHOOSE i \in ok : \A j \in ok : i <= j]

\* ------------------------------------------------- the pool's synchronous parts
\* The database and the process-local sets a pool method works on.  `full`
\* records that the model ran out of row indexes (MaxVms).
World == [v |-> vms, t |-> tasks, tm |-> timers, pd |-> pend, full |-> FALSE]

FreeRow(V) ==
  IF \E r \in Rows : V[r].status = "absent"
  THEN CHOOSE r \in Rows : V[r].status = "absent" /\ \A s \in Rows : V[s].status = "absent" => r <= s
  ELSE 0

\* provisionVmForSlot that inserts its row only when createInstance has returned.
provisionVmForSlotLate(W, name) ==
  IF FreeRow(W.v) = 0 THEN [W EXCEPT !.full = TRUE] ELSE W

\* provisionVmForSlot up to `await slot.provider.createInstance`: INSERT the
\* row under its temporary label.
provisionVmForSlot(W, name) ==
  LET r == FreeRow(W.v) IN
  IF r = 0 THEN [W EXCEPT !.full = TRUE]
  ELSE [W EXCEPT !.v[r] = [status |-> "provisioning", provider |-> name, task_id |-> NULL,
                           idle_since |-> NULL, created_at |-> now, real |-> FALSE]]

\* ensureWarm's deficit loop.  The label, which is the new row's primary key,
\* is `${labelPrefix}-${Date.now()}`: a call that gets the millisecond of an
\* earlier call of the loop fails at its INSERT, and its .catch logs that.
RECURSIVE warmSpawn(_, _, _)
warmSpawn(W, name, n) ==
  IF n <= 0 \/ W.full THEN W
  ELSE LET r == FreeRow(W.v)
           W1 == provisionVmForSlot(W, name)
       IN IF r = 0 THEN W1
          ELSE IF sameMs THEN [W1 EXCEPT !.pd = @ \cup {r}]
          ELSE warmSpawn([W1 EXCEPT !.pd = @ \cup {r}], name, n - 1)

RECURSIVE warmSlots(_, _)
warmSlots(W, i) ==
  IF i > Len(config) THEN W
  ELSE LET slot == config[i]
           warmCount == Cardinality({r \in Rows : /\ W.v[r].provider = slot.name
                                                  /\ W.v[r].status \in {"ready", "provisioning"}
                                                  /\ W.v[r].task_id = NULL})
           deficit == slot.minReady - warmCount
       IN IF slot.minReady <= 0 \/ deficit <= 0 THEN warmSlots(W, i + 1)
          ELSE IF sameMs THEN warmSpawn(W, slot.name, deficit)
          ELSE warmSlots(warmSpawn(W, slot.name, deficit), i + 1)

ensureWarm(W) == warmSlots(W, 1)

scheduleIdleReap(W, r, idleTimeoutMs) == [W EXCEPT !.tm = @ \cup {[vm |-> r, due |-> now + idleTimeoutMs]}]

\* destroyVm up to `await slot.provider.destroyInstance`.
destroyVmBegin(W, ref) ==
  IF ~Match(W.v, ref) THEN [W |-> W, wait |-> FALSE, threw |-> FALSE]
  ELSE LET V1 == [W.v EXCEPT ![ref.r].status = "destroying", ![ref.r].task_id = NULL,
                              ![ref.r].idle_since = NULL]
       IN IF slotsByName(V1[ref.r].provider) = NoSlot
          THEN [W |-> [W EXCEPT !.v = [V1 EXCEPT ![ref.r].status = "error"]],
                wait |-> FALSE, threw |-> TRUE]
          ELSE [W |-> [W EXCEPT !.v = V1], wait |-> TRUE, threw |-> FALSE]

\* destroyVm after the await: destroyed, or error when destroyInstance raised.
destroyVmEnd(V, ref, ok) ==
  IF Match(V, ref) THEN [V EXCEPT ![ref.r].status = IF ok THEN "destroyed" ELSE "error"] ELSE V

\* What destroyInstance(id) does at the provider.
destroyInstance(I, ref, ok) ==
  IF ok /\ ref.real /\ ref.r \in Rows THEN [I EXCEPT ![ref.r] = "gone"] ELSE I

markDestroyed(V, ref) == IF Match(V, ref) THEN [V EXCEPT ![ref.r].status = "destroyed"] ELSE V

markError(V, ref) == IF Match(V, ref) THEN [V EXCEPT ![ref.r].status = "error"] ELSE V

\* releaseVm's UPDATE without `task_id = NULL`.
markIdleKeepsTask(V, ref) ==
  IF Match(V, ref)
  THEN [V EXCEPT ![ref.r].status = "ready", ![ref.r].idle_since = now]
  ELSE V

markIdle(V, ref) ==
  IF Match(V, ref)
  THEN [V EXCEPT ![ref.r].status = "ready", ![ref.r].task_id = NULL, ![ref.r].idle_since = now]
  ELSE V

Snaps(V, S) == LET s == SeqOfSet(S) IN [i \in DOMAIN s |-> Snap(V, s[i])]

\* The id a coroutine keeps of a row (Id: with the status it read).
Key(r, real) == [NoRef EXCEPT !.r = r, !.real = real]

Id(ref) == [Key(ref.r, ref.real) EXCEPT !.status = ref.status]

Loop(W, q, cur, wait) == [W |-> W, q |-> q, cur |-> Id(cur), wait |-> wait]

\* releaseOrphans: the three queries and the force-fail of stale tasks.
orphansOf(W) ==
  {r \in Rows : /\ W.v[r].status = "assigned" /\ W.v[r].task_id \in Tasks
                /\ W.t[W.v[r].task_id].status \in {"completed", "failed"}}

noTaskOf(W) ==
  {r \in Rows : /\ W.v[r].status = "assigned" /\ W.v[r].task_id # NULL
                /\ (W.v[r].task_id \notin Tasks \/ W.t[W.v[r].task_id].status = "absent")}

staleRunningOf(W) ==
  {r \in Rows : /\ W.v[r].status = "assigned" /\ W.v[r].task_id \in Tasks
                /\ W.t[W.v[r].task_id].status \in {"running", "assigned"}
                /\ W.t[W.v[r].task_id].updated_at < now - STALE_TASK_MAX}

\* releaseOrphans without its stale-task UPDATE.
forceFailNone(W) == W

forceFail(W) ==
  LET hit == {W.v[r].task_id : r \in staleRunningOf(W)} IN
  [W EXCEPT !.t = [t \in Tasks |->
     IF t \in hit /\ W.t[t].status \in {"running", "assigned"}
     THEN [W.t[t] EXCEPT !.status = "failed", !.result = "Stale task (process died)",
                         !.completed_at = now, !.updated_at = now]
     ELSE W.t[t]]]

\* releaseOrphans that fails the stale tasks and leaves their VMs assigned.
allOrphansNoStale(W) == Snaps(W.v, orphansOf(W)) \o Snaps(W.v, noTaskOf(W))

allOrphans(W) == Snaps(W.v, orphansOf(W)) \o Snaps(W.v, noTaskOf(W)) \o Snaps(W.v, staleRunningOf(W))

\* A releaseOrphans that schedules the idle reap of a warm-pool VM without
\* the UPDATE that returns it to ready.
RECURSIVE roLoopNoUpdate(_, _)
roLoopNoUpdate(W, q) ==
  IF q = <<>> THEN Loop(W, <<>>, NoRef, FALSE)
  ELSE LET vm == Head(q)
           idleTimeout == idleTimeoutOf(vm.provider)
       IN IF idleTimeout <= 0
          THEN LET d == destroyVmBegin(W, vm) IN
               IF d.wait THEN Loop(d.W, Tail(q), vm, TRUE) ELSE roLoopNoUpdate(d.W, Tail(q))
          ELSE roLoopNoUpdate(scheduleIdleReap(W, vm.r, idleTimeout), Tail(q))

\* releaseOrphans' loop, run until it awaits a destroyVm or the list is empty.
RECURSIVE roLoop(_, _)
roLoop(W, q) ==
  IF q = <<>> THEN Loop(W, <<>>, NoRef, FALSE)
  ELSE LET vm == Head(q)
           idleTimeout == idleTimeoutOf(vm.provider)
       IN IF idleTimeout <= 0
          THEN LET d == destroyVmBegin(W, vm) IN
               IF d.wait THEN Loop(d.W, Tail(q), vm, TRUE) ELSE roLoop(d.W, Tail(q))
          ELSE roLoop(scheduleIdleReap([W EXCEPT !.v = markIdle(W.v, vm)], vm.r, idleTimeout),
                      Tail(q))

releaseOrphans(W) == roLoop(forceFail(W), allOrphans(W))

\* reapStaleProvisioning
staleProvisioning(W) ==
  Snaps(W.v, {r \in Rows : /\ W.v[r].status = "provisioning"
                            /\ W.v[r].created_at < now - STALE_PROVISION_MAX})

RECURSIVE rsLoop(_, _)
rsLoop(W, q) ==
  IF q = <<>> THEN Loop(W, <<>>, NoRef, FALSE)
  ELSE LET vm == Head(q)
           d == destroyVmBegin(W, vm)
       IN IF d.wait THEN Loop(d.W, Tail(q), vm, TRUE)
          ELSE IF d.threw THEN rsLoop([d.W EXCEPT !.v = markDestroyed(d.W.v, vm)], Tail(q))
          ELSE rsLoop(d.W, Tail(q))

reapStaleProvisioning(W) == rsLoop(W, staleProvisioning(W))

\* reapIdleVms
idleVms(W) ==
  Snaps(W.v, {r \in Rows : /\ W.v[r].status = "ready" /\ W.v[r].task_id = NULL
                            /\ W.v[r].idle_since # NULL})

RECURSIVE riLoop(_, _)
riLoop(W, q) ==
  IF q = <<>> THEN Loop(W, <<>>, NoRef, FALSE)
  ELSE LET vm == Head(q)
           idleTimeout == idleTimeoutOf(vm.provider)
           elapsed == now - vm.idle_since
       IN IF idleTimeout <= 0 \/ elapsed >= idleTimeout
          THEN LET d == destroyVmBegin(W, vm) IN
               IF d.wait THEN Loop(d.W, Tail(q), vm, TRUE) ELSE riLoop(d.W, Tail(q))
          ELSE riLoop(W, Tail(q))

reapIdleVms(W) == riLoop(W, idleVms(W))

\* The rows of reapIdleVms' query that it destroys: slot timeout 0 or elapsed.
idleDue(W) ==
  LET due(vm) == idleTimeoutOf(vm.provider) <= 0 \/ now - vm.idle_since >= idleTimeoutOf(vm.provider)
  IN SelectSeq(idleVms(W), due)

\* One of reapIdleVms ("ri"), reapStaleProvisioning ("rs"), releaseOrphans
\* ("ro") run from its call to its return with nothing in between; oks[k] says
\* whether the k-th destroyInstance call succeeds.
RECURSIVE runLoop(_, _, _, _)
runLoop(op, L, oks, k) ==
  IF ~L.wait THEN L.W
  ELSE LET V1 == destroyVmEnd(L.W.v, L.cur, oks[k])
           W1 == [L.W EXCEPT !.v = IF op = "rs" /\ ~oks[k] THEN markDestroyed(V1, L.cur) ELSE V1]
       IN runLoop(op, IF op = "ri" THEN riLoop(W1, L.q)
                      ELSE IF op = "rs" THEN rsLoop(W1, L.q) ELSE roLoop(W1, L.q),
                  oks, k + 1)

runReap(op, W, oks) ==
  runLoop(op, IF op = "ri" THEN reapIdleVms(W)
              ELSE IF op = "rs" THEN reapStaleProvisioning(W) ELSE releaseOrphans(W),
          oks, 1)

\* An upper bound of the number the operation returns: the rows it works on.
reapWork(op, W) ==
  IF op = "ri" THEN Len(idleDue(W))
  ELSE IF op = "rs" THEN Len(staleProvisioning(W)) ELSE Len(allOrphans(W))

\* reapErrorVms
errorVms(W) == Snaps(W.v, {r \in Rows : W.v[r].status = "error"})

RECURSIVE reLoop(_, _)
reLoop(W, q) ==
  IF q = <<>> THEN Loop(W, <<>>, NoRef, FALSE)
  ELSE LET vm == Head(q) IN
       IF slotsByName(vm.provider) = NoSlot
       THEN reLoop([W EXCEPT !.v = markDestroyed(W.v, vm)], Tail(q))
       ELSE Loop(W, Tail(q), vm, TRUE)

reapErrorVms(W) == reLoop(W, errorVms(W))

\* ----------------------------------------------------------- task manager
createTask(T, t) == [T EXCEPT ![t] = [AbsentTask EXCEPT !.status = "pending", !.updated_at = now]]

setBranch(T, t) == [T EXCEPT ![t].updated_at = now]

setPrUrl(T, t) == [T EXCEPT ![t].updated_at = now]

assignTask(T, t, vmId) ==
  [T EXCEPT ![t].status = "assigned", ![t].vm_id = vmId, ![t].updated_at = now]

markRunning(T, t) ==
  [T EXCEPT ![t].status = "running", ![t].started_at = now, ![t].updated_at = now]

completeTask(T, t, result, exitCode) ==
  [T EXCEPT ![t].status = "completed", ![t].result = result, ![t].exit_code = <<exitCode>>,
            ![t].completed_at = now, ![t].updated_at = now]

\* exitCode is <<>> when the caller passes none (exitCode ?? null)
failTask(T, t, error, exitCode) ==
  [T EXCEPT ![t].status = "failed", ![t].result = error, ![t].exit_code = exitCode,
            ![t].completed_at = now, ![t].updated_at = now]

touchTask(T, t) == [T EXCEPT ![t].updated_at = now]

getInFlightTasks(T) ==
  LET s == SeqOfSet({t \in Tasks : T[t].status \in {"running", "assigned"}})
  IN [i \in DOMAIN s |-> [id |-> s[i], status |-> T[s[i]].status, vm_id |-> T[s[i]].vm_id]]

\* ------------------------------------------------------ event / log writers
\* createEventWriter(taskId).emit: the writer's own counter is the frame's seq.
emit(E, t, seq, type, name) == [E EXCEPT ![t] = Append(@, [seq |-> seq, type |-> type, name |-> name])]

\* createLogWriter(taskId): append / writeHeader write text, finalize the sentinel.
append(L, t, kind) == [L EXCEPT ![t] = Append(@, [k |-> kind, exit |-> 0])]

finalize(L, t, exitCode) == [L EXCEPT ![t] = Append(@, [k |-> "sentinel", exit |-> exitCode])]

\* ---------------------------------------------------------------- tailLog
\* text.includes(SENTINEL_PREFIX)
includesSentinel(text) == \E i \in DOMAIN text : text[i].k = "sentinel"

\* The predicate `hal run` and `hal logs` pass to tailLog.
isTaskDone(T, t) == T[t].status \in {"completed", "failed"}

\* A tailLog call: `off` is its offset, `seen` what it wrote to stdout, `live`
\* whether the task was still unfinished when it was called.
TailIdle == [pc |-> "idle", task |-> 0, off |-> 0, seen |-> <<>>, live |-> FALSE]

\* One iteration of tailLog's `while (true)`, up to its sleep or its break.
tailIter(r, L, T) ==
  LET size == Len(L[r.task])
      text == SubSeq(L[r.task], r.off + 1, size)
      r1 == IF size > r.off THEN [r EXCEPT !.seen = @ \o text, !.off = size] ELSE r
      finalSize == Len(L[r.task])
      remaining == SubSeq(L[r.task], r1.off + 1, finalSize)
  IN IF size > r.off /\ includesSentinel(text) THEN [r1 EXCEPT !.pc = "done"]
     ELSE IF isTaskDone(T, r.task)
     THEN [r1 EXCEPT !.pc = "done", !.seen = IF finalSize > r1.off THEN @ \o remaining ELSE @]
     ELSE [r1 EXCEPT !.pc = "sleep"]

\* tailLog's wait for the file, then its first iteration.  (The log file
\* exists as soon as executeTask has written its header.)
tailWait(r, L, T) ==
  IF Len(L[r.task]) > 0 THEN tailIter(r, L, T)
  ELSE IF isTaskDone(T, r.task) THEN [r EXCEPT !.pc = "done"]
  ELSE [r EXCEPT !.pc = "wait"]

\* ------------------------------------------------------------- coroutines
Idle ==
  [pc |-> "idle", kind |-> "none", task |-> 0, vm |-> NoRef, held |-> FALSE, cur |-> NoRef,
   q |-> <<>>, att |-> 0, err |-> "none", seq |-> 0, start |-> 0, off |-> 0, isDone |-> FALSE,
   warm |-> 0, size |-> 0, sentinel |-> <<>>, orph |-> FALSE]

\* Where a frame stands after one of the pool's loops stopped.
AfterLoop(c, L, name) ==
  [c EXCEPT !.pc = IF L.wait THEN name \o "_destroy" ELSE name \o "_ret", !.cur = L.cur, !.q = L.q]

Throw(c, msg) == [c EXCEPT !.pc = "catch", !.err = msg, !.cur = NoRef, !.q = <<>>]

Commit(W) ==
  /\ ~W.full
  /\ vms' = W.v
  /\ tasks' = W.t
  /\ timers' = W.tm
  /\ pend' = W.pd

Fault(ok) == IF ok THEN faults' = faults ELSE faults < MaxFaults /\ faults' = faults + 1

Slot(name, maxPoolSize, priority, idleTimeoutMs, minReady) ==
  [name |-> name, maxPoolSize |-> maxPoolSize, priority |-> priority,
   idleTimeoutMs |-> idleTimeoutMs, minReady |-> minReady]

\* The wrapper script before it is launched: planFirst is the argument of
\* generateWrapperScript, runs the contexts the agent was run with so far,
\* planMd whether /workspace/.hal/plan.md exists, reset whether the working
\* tree was reset, last what the latest agent run exited with, done what the
\* sentinel holds (<<>>: no file yet).
WrapperStart(planFirst) ==
  [pc |-> "ready", planFirst |-> planFirst, runs |-> <<>>, planMd |-> FALSE,
   reset |-> FALSE, last |-> 0, PLAN_EXIT |-> 0, EXIT_CODE |-> 0, done |-> <<>>]

\* A run whose wrapper script is not followed.
WrapperOff == [WrapperStart(FALSE) EXCEPT !.pc = "off"]

Configs ==
  { <<Slot("a", 1, 1, 0, 0)>>,
    <<Slot("a", 1, 1, 12, 1)>>,
    <<Slot("a", 5, 1, 12, 1)>> }

Init ==
  /\ config \in Configs
  /\ vms = [r \in Rows |-> AbsentVm]
  /\ tasks = [t \in Tasks |-> AbsentTask]
  /\ inst = [r \in Rows |-> "none"]
  /\ co = [p \in Procs |-> Idle]
  /\ timers = {}
  /\ tdest = {}
  /\ pend = {}
  /\ events = [t \in Tasks |-> <<>>]
  /\ logs = [t \in Tasks |-> <<>>]
  /\ now = 1
  /\ faults = 0
  /\ nrec = 0
  /\ rd = [k \in Readers |-> TailIdle]
  /\ sameMs = FALSE
  /\ wrapper = WrapperOff

\* --------------------------------------------------- executeTask: acquireVm
\* The task, if any, that has completed with exit 0 and whose executeTask is
\* past its releaseVm when startTask is called (0 when there is none).
completedBefore ==
  LET S == {q \in Tasks : /\ tasks[q].status = "completed"
                          /\ tasks[q].exit_code = <<0>>
                          /\ tasks[q].vm_id # NULL
                          /\ co[q].pc \in {"final", "done"}}
  IN IF S = {} THEN 0 ELSE CHOOSE q \in S : \A u \in S : q <= u

\* Whether, when acquireVm is called, some slot is full and one of the rows
\* that fill it is an orphan (its task finished, absent or stale).
orphanAtCapacity ==
  \E i \in DOMAIN config :
    /\ CountActive(vms, config[i].name) >= config[i].maxPoolSize
    /\ \E r \in orphansOf(World) \cup noTaskOf(World) \cup staleRunningOf(World) :
         vms[r].provider = config[i].name

\* startTask: createTask, then executeTask runs synchronously through
\* setupTask into acquireVm's `await this.releaseOrphans()`. The frame keeps
\* in `warm` the completed task it was started after.
StartTask(t) ==
  /\ tasks[t].status = "absent"
  /\ co[t].pc = "idle"
  /\ \A u \in Tasks : u < t => tasks[u].status # "absent"
  /\ LET W0 == [World EXCEPT !.t = createTask(tasks, t)]
         L == releaseOrphans(W0)
         c == [Idle EXCEPT !.kind = "exec", !.task = t, !.seq = 2, !.warm = completedBefore,
                           !.orph = orphanAtCapacity]
     IN /\ Commit(L.W)
        /\ co' = [co EXCEPT ![t] = AfterLoop(c, L, "ro")]
        /\ events' = emit(emit(events, t, 0, "task_start", ""), t, 1, "phase", "vm_acquire")
        /\ logs' = append(logs, t, "text")
  /\ UNCHANGED <<config, wrapper, rd, sameMs, inst, tdest, now, faults, nrec>>

\* releaseOrphans: a destroyVm of the loop finished; the loop goes on.
RoDestroyDone(p, ok) ==
  /\ co[p].pc = "ro_destroy"
  /\ Fault(ok)
  /\ LET W1 == [World EXCEPT !.v = destroyVmEnd(vms, co[p].cur, ok)]
         L == roLoop(W1, co[p].q)
     IN /\ Commit(L.W)
        /\ co' = [co EXCEPT ![p] = AfterLoop(co[p], L, "ro")]
  /\ inst' = destroyInstance(inst, co[p].cur, ok)
  /\ UNCHANGED <<config, wrapper, rd, sameMs, tdest, events, logs, now, nrec>>

\* acquireVm: releaseOrphans returned, reapStaleProvisioning starts.
AcqRoRet(p) ==
  /\ co[p].pc = "ro_ret"
  /\ co[p].kind = "exec"
  /\ LET L == reapStaleProvisioning(World)
     IN /\ Commit(L.W)
        /\ co' = [co EXCEPT ![p] = AfterLoop(co[p], L, "rs")]
  /\ UNCHANGED <<config, wrapper, rd, sameMs, inst, tdest, events, logs, now, faults, nrec>>

\* reapStaleProvisioning: a destroyVm finished (a failure marks the row destroyed).
RsDestroyDone(p, ok) ==
  /\ co[p].pc = "rs_destroy"
  /\ Fault(ok)
  /\ LET V1 == destroyVmEnd(vms, co[p].cur, ok)
         W1 == [World EXCEPT !.v = IF ok THEN V1 ELSE markDestroyed(V1, co[p].cur)]
         L == rsLoop(W1, co[p].q)
     IN /\ Commit(L.W)
        /\ co' = [co EXCEPT ![p] = AfterLoop(co[p], L, "rs")]
  /\ inst' = destroyInstance(inst, co[p].cur, ok)
  /\ UNCHANGED <<config, wrapper, rd, sameMs, tdest, events, logs, now, nrec>>

\* reapStaleProvisioning returned, reapIdleVms starts (acquireVm and reconcile).
RsRet(p) ==
  /\ co[p].pc = "rs_ret"
  /\ LET L == reapIdleVms(World)
     IN /\ Commit(L.W)
        /\ co' = [co EXCEPT ![p] = AfterLoop(co[p], L, "ri")]
  /\ UNCHANGED <<config, wrapper, rd, sameMs, inst, tdest, events, logs, now, faults, nrec>>

\* reapIdleVms: a destroyVm finished (a failure is logged).
RiDestroyDone(p, ok) ==
  /\ co[p].pc = "ri_destroy"
  /\ Fault(ok)
  /\ LET W1 == [World EXCEPT !.v = destroyVmEnd(vms, co[p].cur, ok)]
         L == riLoop(W1, co[p].q)
     IN /\ Commit(L.W)
        /\ co' = [co EXCEPT ![p] = AfterLoop(co[p], L, "ri")]
  /\ inst' = destroyInstance(inst, co[p].cur, ok)
  /\ UNCHANGED <<config, wrapper, rd, sameMs, tdest, events, logs, now, nrec>>

\* acquireVm's transaction, ensureWarm and return.
bind(W, t, ref) ==
  LET V1 == IF Match(W.v, ref)
            THEN [W.v EXCEPT ![ref.r].status = "assigned", ![ref.r].task_id = t,
                              ![ref.r].idle_since = NULL]
            ELSE W.v
      T1 == [W.t EXCEPT ![t].vm_id = ref.r, ![t].updated_at = now]
  IN ensureWarm([W EXCEPT !.v = V1, !.t = T1])

\* provisionWithRetry's next attempt: provisionVm up to createInstance.
\* `All provider slots are at capacity (total max: ${total})`
RECURSIVE totalMax(_)
totalMax(s) == IF s = <<>> THEN 0 ELSE Head(s).maxPoolSize + totalMax(Tail(s))

capacityError(s) ==
  "All provider slots are at capacity (total max: " \o ToString(totalMax(s)) \o ")"

\* provisionVm that inserts its row before it looks at the capacity.
provisionVmInsertFirst(W, c, attempt) ==
  LET slot == pickSlot(W.v)
      r == FreeRow(W.v)
      W1 == provisionVmForSlot(W, IF slot = NoSlot THEN config[1].name ELSE slot.name)
  IN IF slot = NoSlot THEN [W |-> W1, c |-> Throw(c, capacityError(config))]
     ELSE [W |-> W1,
           c |-> [c EXCEPT !.pc = "pv_create", !.att = attempt, !.q = <<>>,
                           !.cur = Key(r, FALSE)]]

provisionVm(W, c, attempt) ==
  LET slot == pickSlot(W.v)
      r == FreeRow(W.v)
      W1 == provisionVmForSlot(W, slot.name)
  IN IF slot = NoSlot THEN [W |-> W, c |-> Throw(c, capacityError(config))]
     ELSE [W |-> W1,
           c |-> [c EXCEPT !.pc = "pv_create", !.att = attempt, !.q = <<>>,
                           !.cur = Key(r, FALSE)]]

\* acquireVm after the housekeeping: SELECT a free VM and bind it, or provision.
AcqSelect(p) ==
  /\ co[p].pc = "ri_ret"
  /\ co[p].kind = "exec"
  /\ LET free == {r \in Rows : vms[r].status = "ready" /\ vms[r].task_id = NULL} IN
     IF free # {}
     THEN \E r \in free :
            /\ Commit(bind(World, co[p].task, Snap(vms, r)))
            /\ co' = [co EXCEPT ![p] = [@ EXCEPT !.pc = "assign", !.vm = Key(r, vms[r].real),
                                                 !.cur = NoRef, !.q = <<>>]]
     ELSE LET a == provisionVm(World, co[p], 1) IN
            /\ Commit(a.W)
            /\ co' = [co EXCEPT ![p] = a.c]
  /\ logs' = append(logs, co[p].task, "text")
  /\ UNCHANGED <<config, wrapper, rd, sameMs, inst, tdest, events, now, faults, nrec>>

\* provisionVmForSlot after createInstance: the row takes the provider's id, or
\* is marked error and the error propagates (provisionWithRetry awaits
\* provisionVm outside its try).  On success waitForVm starts.
PvCreateDone(p, ok) ==
  /\ co[p].pc = "pv_create"
  /\ Fault(ok)
  /\ LET ref == co[p].cur IN
     IF ok
     THEN /\ vms' = IF Match(vms, ref) THEN [vms EXCEPT ![ref.r].real = TRUE] ELSE vms
          /\ inst' = [inst EXCEPT ![ref.r] = IF @ = "none" THEN "pending" ELSE @]
          /\ co' = [co EXCEPT ![p] = [@ EXCEPT !.pc = "pv_wait", !.cur = Key(ref.r, TRUE)]]
     ELSE /\ vms' = markError(vms, ref)
          /\ inst' = inst
          /\ co' = [co EXCEPT ![p] = Throw(@, "createInstance failed")]
  /\ UNCHANGED <<config, wrapper, rd, sameMs, tasks, timers, tdest, pend, events, logs, now, nrec>>

\* provisionWithRetry after a failed attempt was cleaned up: next attempt or give up.
nextAttempt(W, c) ==
  IF c.att + 1 <= maxAttempts THEN provisionVm(W, c, c.att + 1)
  ELSE [W |-> W, c |-> Throw(c, "waitForReady failed")]

\* waitForVm after waitForReady: mark the row ready; on failure provisionWithRetry
\* starts destroyVm on the failed VM.
PvWaitDone(p, ok) ==
  /\ co[p].pc = "pv_wait"
  /\ LET ref == co[p].cur IN
     IF ok
     THEN /\ inst[ref.r] \in {"pending", "active"}
          /\ faults' = faults
          /\ vms' = IF Match(vms, ref) THEN [vms EXCEPT ![ref.r].status = "ready"] ELSE vms
          /\ inst' = [inst EXCEPT ![ref.r] = "active"]
          /\ co' = [co EXCEPT ![p] = [@ EXCEPT !.pc = "bind", !.vm = ref, !.cur = NoRef, !.att = 0]]
          /\ UNCHANGED <<tasks, timers, pend>>
     ELSE /\ IF inst[ref.r] = "gone" THEN faults' = faults ELSE Fault(FALSE)
          /\ inst' = inst
          /\ LET d == destroyVmBegin(World, ref) IN
             IF d.wait
             THEN /\ Commit(d.W)
                  /\ co' = [co EXCEPT ![p] = [@ EXCEPT !.pc = "pv_cleanup"]]
             ELSE LET W1 == IF d.threw THEN [d.W EXCEPT !.v = markError(d.W.v, ref)] ELSE d.W
                      a == nextAttempt(W1, co[p])
                  IN Commit(a.W) /\ co' = [co EXCEPT ![p] = a.c]
  /\ logs' = append(logs, co[p].task, "text")
  /\ UNCHANGED <<config, wrapper, rd, sameMs, tdest, events, now, nrec>>

\* provisionWithRetry: the cleanup destroyVm finished (a failure marks the row error).
PvCleanupDone(p, ok) ==
  /\ co[p].pc = "pv_cleanup"
  /\ Fault(ok)
  /\ LET ref == co[p].cur
         V1 == destroyVmEnd(vms, ref, ok)
         W1 == [World EXCEPT !.v = IF ok THEN V1 ELSE markError(V1, ref)]
         a == nextAttempt(W1, co[p])
     IN /\ Commit(a.W)
        /\ co' = [co EXCEPT ![p] = a.c]
        /\ inst' = destroyInstance(inst, ref, ok)
  /\ logs' = append(logs, co[p].task, "text")
  /\ UNCHANGED <<config, wrapper, rd, sameMs, tdest, events, now, nrec>>

\* acquireVm after provisionWithRetry returned: the transaction, ensureWarm.
AcqBind(p) ==
  /\ co[p].pc = "bind"
  /\ Commit(bind(World, co[p].task, co[p].vm))
  /\ co' = [co EXCEPT ![p] = [@ EXCEPT !.pc = "assign"]]
  /\ UNCHANGED <<config, wrapper, rd, sameMs, inst, tdest, events, logs, now, faults, nrec>>

\* ------------------------------------------------- executeTask: setupTask
RECURSIVE emitPhases(_, _, _, _)
emitPhases(E, t, seq, names) ==
  IF names = <<>> THEN E
  ELSE emitPhases(emit(E, t, seq, "phase", Head(names)), t, seq + 1, Tail(names))

\* A setupTask that announces the ssh wait before the VM.
emitAcquiredLate(E, t, seq, r) ==
  emit(emit(E, t, seq, "phase", "ssh_wait"), t, seq + 1, "vm_acquired", ToString(r))

\* setupTask after acquireVm: vm_acquired{vmId}, then phase{ssh_wait}.
emitAcquired(E, t, seq, r) ==
  emit(emit(E, t, seq, "vm_acquired", ToString(r)), t, seq + 1, "phase", "ssh_wait")

\* setupTask after acquireVm returned: assignTask, vm_acquired, phase ssh_wait.
SetupAssign(p) ==
  /\ co[p].pc = "assign"
  /\ LET t == co[p].task IN
       /\ tasks' = assignTask(tasks, t, co[p].vm.r)
       /\ events' = emitAcquired(events, t, co[p].seq, co[p].vm.r)
       /\ logs' = append(logs, t, "text")
       /\ co' = [co EXCEPT ![p] = [@ EXCEPT !.pc = "prep", !.seq = @ + 2, !.start = now]]
  /\ UNCHANGED <<config, wrapper, rd, sameMs, vms, inst, timers, tdest, pend, now, faults, nrec>>

\* The phases between assignTask and setBranch: waitForSsh and workspace
\* cleanup, clone, agent install, branch setup.  `n` phases succeed; the next
\* one raises unless all of them succeeded.
SetupPhases == <<"clone", "agent_install", "branch_setup", "agent_launch">>

SetupPrepare(p, n) ==
  /\ co[p].pc = "prep"
  /\ Fault(n = Len(SetupPhases))
  /\ LET t == co[p].task IN
       /\ events' = emitPhases(events, t, co[p].seq, SubSeq(SetupPhases, 1, n))
       /\ logs' = append(logs, t, "text")
       /\ IF n = Len(SetupPhases)
          THEN /\ tasks' = setBranch(tasks, t)
               /\ co' = [co EXCEPT ![p] = [@ EXCEPT !.pc = "launch", !.seq = @ + n]]
          ELSE /\ tasks' = tasks
               /\ co' = [co EXCEPT ![p] = Throw([@ EXCEPT !.seq = @ + n], "setup failed")]
  /\ UNCHANGED <<config, wrapper, rd, sameMs, vms, inst, timers, tdest, pend, now, nrec>>

\* pollForCompletion up to its first probe.
pollStart(c) ==
  [c EXCEPT !.pc = "probe", !.start = now, !.off = 0, !.size = 0, !.isDone = FALSE, !.seq = @ + 1]

\* Upload and launch of the wrapper, markRunning; setupTask returns the VM to
\* executeTask and pollForCompletion starts.
SetupLaunch(p, ok) ==
  /\ co[p].pc = "launch"
  /\ Fault(ok)
  /\ LET t == co[p].task IN
     IF ok
     THEN /\ tasks' = markRunning(tasks, t)
          /\ events' = emit(events, t, co[p].seq, "phase", "agent_run")
          /\ logs' = append(logs, t, "text")
          /\ co' = [co EXCEPT ![p] = pollStart([@ EXCEPT !.held = TRUE])]
     ELSE /\ co' = [co EXCEPT ![p] = Throw(@, "launch failed")]
          /\ UNCHANGED <<tasks, events, logs>>
  /\ UNCHANGED <<config, wrapper, rd, sameMs, vms, inst, timers, tdest, pend, now, nrec>>

\* ------------------------------------- pollForCompletion / collectResults
\* A poll loop that goes on to collectResults after its first heartbeat.
afterBeatLeaves(c) == [c EXCEPT !.pc = "collect"]

\* After the heartbeat: leave the loop or sleep.
afterBeat(c) == [c EXCEPT !.pc = IF c.isDone THEN "collect" ELSE "sleep"]

\* A poll loop that leaves as soon as the probe reports the sentinel.
PollProbeLeavesFirst(p, ok, size, isDone) ==
  /\ co[p].pc = "probe"
  /\ Fault(ok)
  /\ size >= co[p].off
  /\ LET t == co[p].task IN
     IF ~ok THEN co' = [co EXCEPT ![p] = Throw(@, "ssh failed")] /\ tasks' = tasks
     ELSE IF size > co[p].off /\ ~isDone
     THEN /\ co' = [co EXCEPT ![p] = [@ EXCEPT !.pc = "delta", !.size = size, !.isDone = isDone]]
          /\ tasks' = tasks
     ELSE /\ co' = [co EXCEPT ![p] = afterBeat([@ EXCEPT !.size = size, !.isDone = isDone])]
          /\ tasks' = touchTask(tasks, t)
  /\ UNCHANGED <<config, wrapper, rd, sameMs, vms, inst, timers, tdest, pend, events, logs, now, nrec>>

\* The combined probe returned: sentinel present or not (isDone), and the
\* remote size (remoteSize, kept in `size`; `off` is remoteOffset).
PollProbe(p, ok, size, isDone) ==
  /\ co[p].pc = "probe"
  /\ Fault(ok)
  /\ size >= co[p].off
  /\ LET t == co[p].task IN
     IF ~ok THEN co' = [co EXCEPT ![p] = Throw(@, "ssh failed")] /\ tasks' = tasks
     ELSE IF size > co[p].off
     THEN /\ co' = [co EXCEPT ![p] = [@ EXCEPT !.pc = "delta", !.size = size, !.isDone = isDone]]
          /\ tasks' = tasks
     ELSE /\ co' = [co EXCEPT ![p] = afterBeat([@ EXCEPT !.size = size, !.isDone = isDone])]
          /\ tasks' = touchTask(tasks, t)
  /\ UNCHANGED <<config, wrapper, rd, sameMs, vms, inst, timers, tdest, pend, events, logs, now, nrec>>

\* The delta fetch returned: append the output, emit it, move the offset,
\* heartbeat.
PollDelta(p, ok) ==
  /\ co[p].pc = "delta"
  /\ Fault(ok)
  /\ LET t == co[p].task IN
     IF ok
     THEN /\ logs' = append(logs, t, "out")
          /\ events' = emit(events, t, co[p].seq, "output", "stdout")
          /\ tasks' = touchTask(tasks, t)
          /\ co' = [co EXCEPT ![p] = afterBeat([@ EXCEPT !.seq = @ + 1, !.off = co[p].size])]
     ELSE /\ co' = [co EXCEPT ![p] = Throw(@, "ssh failed")]
          /\ UNCHANGED <<logs, events, tasks>>
  /\ UNCHANGED <<config, wrapper, rd, sameMs, vms, inst, timers, tdest, pend, now, nrec>>

\* The poll sleep ended: time out (after the best-effort pkill) or probe again.
PollSleep(p) ==
  /\ co[p].pc = "sleep"
  /\ co' = [co EXCEPT ![p] = IF now - @.start > AGENT_TIMEOUT
                             THEN Throw(@, "Agent timed out")
                             ELSE [@ EXCEPT !.pc = "probe"]]
  /\ UNCHANGED <<config, wrapper, rd, sameMs, vms, tasks, inst, timers, tdest, pend, events, logs, now, faults, nrec>>

ExitCodes == {0, 1}

\* Characters the done sentinel may hold and what `stdout.trim()` leaves.
Digits == <<"0", "1", "7">>

isDigit(ch) == \E i \in DOMAIN Digits : Digits[i] = ch

digitOf(ch) == IF ch = "0" THEN 0 ELSE IF ch = "1" THEN 1 ELSE 7

RECURSIVE trimStart(_)
trimStart(s) == IF s # <<>> /\ Head(s) = " " THEN trimStart(Tail(s)) ELSE s

RECURSIVE trimEnd(_)
trimEnd(s) == IF s # <<>> /\ s[Len(s)] = " " THEN trimEnd(SubSeq(s, 1, Len(s) - 1)) ELSE s

trim(s) == trimEnd(trimStart(s))

\* The digits at the front of s, read as a decimal number (acc: value so far).
RECURSIVE digitPrefix(_, _)
digitPrefix(s, acc) ==
  IF s = <<>> \/ ~isDigit(Head(s)) THEN acc
  ELSE digitPrefix(Tail(s), acc * 10 + digitOf(Head(s)))

\* parseInt(s, 10): an optional sign, then the longest run of digits; <<>> is
\* NaN (no digit where the number has to start).
parseInt(s) ==
  LET neg == s # <<>> /\ Head(s) = "-"
      body == IF neg THEN Tail(s) ELSE s
  IN IF body = <<>> \/ ~isDigit(Head(body)) THEN <<>>
     ELSE <<(IF neg THEN -1 ELSE 1) * digitPrefix(body, 0)>>

\* collectResults: the four reads returned (content: what `cat done` printed,
\* diffStat: whether diff-stat.txt has text); the task is completed or failed.
CollectResults(p, ok, content, diffStat, prUrl) ==
  /\ co[p].pc = "collect"
  /\ Fault(ok)
  /\ LET t == co[p].task
         T1 == IF prUrl THEN setPrUrl(tasks, t) ELSE tasks
         exitCode == parseInt(trim(content))
         exitCodeValid == IF exitCode # <<>> THEN exitCode[1] ELSE 1
         result == IF diffStat THEN "diff-stat" ELSE "exit code " \o ToString(exitCodeValid)
     IN
     IF ~ok THEN co' = [co EXCEPT ![p] = Throw(@, "ssh failed")] /\ UNCHANGED <<tasks, events, logs>>
     ELSE /\ tasks' = IF exitCodeValid = 0 THEN completeTask(T1, t, result, 0)
                      ELSE failTask(T1, t, result, <<exitCodeValid>>)
          /\ events' = emit(events, t, co[p].seq, "task_end",
                            IF exitCodeValid = 0 THEN "completed" ELSE "failed")
          /\ logs' = append(logs, t, "text")
          /\ co' = [co EXCEPT ![p] = [@ EXCEPT !.pc = "release", !.seq = @ + 1,
                                               !.sentinel = content]]
  /\ UNCHANGED <<config, wrapper, rd, sameMs, vms, inst, timers, tdest, pend, now, nrec>>

\* collectResults in the runs where the wrapper wrote the agent's exit code,
\* 0 or 1, and left a diff-stat exactly when the agent succeeded.
Collect(p, ok, exitCode, prUrl) ==
  CollectResults(p, ok, <<ToString(exitCode)>>, exitCode = 0, prUrl)

\* ------------------------------------------------- catch / finally blocks
\* releaseVm up to its await (destroyVm when the slot keeps no warm pool).
\* releaseVm whose test lets a slot with idleTimeoutMs = 0 keep its VM warm.
releaseVmBeginWarmAtZero(W, ref) ==
  IF ~Match(W.v, ref) THEN [W |-> W, wait |-> FALSE, threw |-> FALSE]
  ELSE LET idleTimeout == idleTimeoutOf(W.v[ref.r].provider) IN
       IF idleTimeout < 0 THEN destroyVmBegin(W, ref)
       ELSE [W |-> ensureWarm(scheduleIdleReap([W EXCEPT !.v = markIdle(W.v, ref)], ref.r, idleTimeout)),
             wait |-> FALSE, threw |-> FALSE]

releaseVmBegin(W, ref) ==
  IF ~Match(W.v, ref) THEN [W |-> W, wait |-> FALSE, threw |-> FALSE]
  ELSE LET idleTimeout == idleTimeoutOf(W.v[ref.r].provider) IN
       IF idleTimeout <= 0 THEN destroyVmBegin(W, ref)
       ELSE [W |-> ensureWarm(scheduleIdleReap([W EXCEPT !.v = markIdle(W.v, ref)], ref.r, idleTimeout)),
             wait |-> FALSE, threw |-> FALSE]

\* finalTask?.exit_code ?? 1
finalExit(T, t) == IF T[t].exit_code = <<>> THEN 1 ELSE T[t].exit_code[1]

Done(c) == [Idle EXCEPT !.pc = "done", !.kind = c.kind, !.task = c.task]

\* The catch block of executeTask / resumeTask and the finally block up to
\* its await: failTask, task_end{failed}; releaseVm only if `vm` was set.
Catch(p) ==
  /\ co[p].pc = "catch"
  /\ LET t == co[p].task
         W1 == [World EXCEPT !.t = failTask(tasks, t, co[p].err, <<>>)]
         rel == releaseVmBegin(W1, co[p].vm)
         L1 == append(logs, t, "text")
     IN /\ events' = emit(events, t, co[p].seq, "task_end", "failed")
        /\ IF co[p].held
           THEN /\ Commit(rel.W)
                /\ logs' = L1
                /\ co' = [co EXCEPT ![p] = [@ EXCEPT !.pc = IF rel.wait THEN "rel_destroy" ELSE "final",
                                                     !.seq = @ + 1, !.cur = co[p].vm]]
           ELSE /\ Commit(W1)
                /\ logs' = finalize(L1, t, finalExit(W1.t, t))
                /\ co' = [co EXCEPT ![p] = Done(@)]
  /\ UNCHANGED <<config, wrapper, rd, sameMs, inst, tdest, now, faults, nrec>>

\* The finally block after collectResults returned.
Release(p) ==
  /\ co[p].pc = "release"
  /\ LET rel == releaseVmBegin(World, co[p].vm) IN
       /\ Commit(rel.W)
       /\ co' = [co EXCEPT ![p] = [@ EXCEPT !.pc = IF rel.wait THEN "rel_destroy" ELSE "final",
                                            !.cur = co[p].vm]]
  /\ logs' = append(logs, co[p].task, "text")
  /\ UNCHANGED <<config, wrapper, rd, sameMs, inst, tdest, events, now, faults, nrec>>

\* releaseVm's destroyVm finished (a failure is logged by the caller).
RelDestroyDone(p, ok) ==
  /\ co[p].pc = "rel_destroy"
  /\ Fault(ok)
  /\ vms' = destroyVmEnd(vms, co[p].cur, ok)
  /\ inst' = destroyInstance(inst, co[p].cur, ok)
  /\ co' = [co EXCEPT ![p] = [@ EXCEPT !.pc = "final"]]
  /\ UNCHANGED <<config, wrapper, rd, sameMs, tasks, timers, tdest, pend, events, logs, now, nrec>>

\* log.finalize(finalTask?.exit_code ?? 1)
Final(p) ==
  /\ co[p].pc = "final"
  /\ logs' = finalize(logs, co[p].task, finalExit(tasks, co[p].task))
  /\ co' = [co EXCEPT ![p] = Done(@)]
  /\ UNCHANGED <<config, wrapper, rd, sameMs, vms, tasks, inst, timers, tdest, pend, events, now, faults, nrec>>

\* -------------------------------------------------- recover: reconcile()
\* reconcile's first loop, run until it awaits getInstance.
RECURSIVE rcLoop(_, _)
rcLoop(W, q) ==
  IF q = <<>> THEN Loop(W, <<>>, NoRef, FALSE)
  ELSE LET vm == Head(q) IN
       IF slotsByName(vm.provider) = NoSlot
       THEN rcLoop([W EXCEPT !.v = markDestroyed(W.v, vm)], Tail(q))
       ELSE Loop(W, Tail(q), vm, TRUE)

\* After the first loop stopped: await getInstance, or go on to reapErrorVms.
afterRc(c, L) ==
  IF L.wait THEN [W |-> L.W, c |-> [c EXCEPT !.pc = "rc_get", !.cur = L.cur, !.q = L.q]]
  ELSE LET L2 == reapErrorVms(L.W) IN [W |-> L2.W, c |-> AfterLoop(c, L2, "re")]

activeVms(W) == Snaps(W.v, {r \in Rows : W.v[r].status \in Active})

\* The store recover() may find after a crash: a task still running on a VM
\* that is assigned to it and known to the provider, with a heartbeat older
\* than the stale threshold (0 when there is none).
staleAtStart ==
  LET S == {t \in Tasks :
              /\ tasks[t].status = "running"
              /\ tasks[t].vm_id # NULL
              /\ tasks[t].updated_at < now - STALE_TASK_MAX
              /\ vms[tasks[t].vm_id].status = "assigned"
              /\ vms[tasks[t].vm_id].task_id = t
              /\ vms[tasks[t].vm_id].real
              /\ inst[tasks[t].vm_id] = "active"}
  IN IF S = {} THEN 0 ELSE CHOOSE t \in S : \A u \in S : t <= u

\* recover() is called: reconcile runs up to its first await. The frame keeps
\* the time of the call and the stale task it started from.
RecoverStart ==
  /\ co[RecId].pc \in {"idle", "done"}
  /\ nrec < MaxRecover
  /\ nrec' = nrec + 1
  /\ LET T == staleAtStart
         c == [Idle EXCEPT !.kind = "recover", !.start = now, !.task = T,
                           !.vm = IF T = 0 THEN NoRef ELSE Snap(vms, tasks[T].vm_id)]
         a == afterRc(c, rcLoop(World, activeVms(World)))
     IN Commit(a.W) /\ co' = [co EXCEPT ![RecId] = a.c]
  /\ UNCHANGED <<config, wrapper, rd, sameMs, inst, tdest, events, logs, now, faults>>

\* What getInstance(id) can answer: the provider knows no temporary label and
\* no destroyed instance; any call may raise.
getInstanceOutcomes(ref) ==
  IF ~ref.real \/ inst[ref.r] \in {"none", "gone"} THEN {"missing"}
  ELSE IF inst[ref.r] = "pending" THEN {"pending", "active", "raise"}
  ELSE {"active", "raise"}

\* reconcile: getInstance answered for one active row.
RcGetDone(out) ==
  /\ co[RecId].pc = "rc_get"
  /\ out \in getInstanceOutcomes(co[RecId].cur)
  /\ Fault(out # "raise")
  /\ LET vm == co[RecId].cur
         V1 == IF out \in {"missing", "raise"} THEN markDestroyed(vms, vm)
               ELSE IF out = "active" /\ vm.status = "provisioning" /\ Match(vms, vm)
               THEN [vms EXCEPT ![vm.r].status = "ready"]
               ELSE vms
         a == afterRc(co[RecId], rcLoop([World EXCEPT !.v = V1], co[RecId].q))
     IN /\ Commit(a.W)
        /\ co' = [co EXCEPT ![RecId] = a.c]
        /\ inst' = IF out = "active" THEN [inst EXCEPT ![vm.r] = "active"] ELSE inst
  /\ UNCHANGED <<config, wrapper, rd, sameMs, tdest, events, logs, now, nrec>>

\* reapErrorVms: destroyInstance returned or raised; the row is marked destroyed.
ReDestroyDone(ok) ==
  /\ co[RecId].pc = "re_destroy"
  /\ Fault(ok)
  /\ LET vm == co[RecId].cur
         L == reLoop([World EXCEPT !.v = markDestroyed(vms, vm)], co[RecId].q)
     IN /\ Commit(L.W)
        /\ co' = [co EXCEPT ![RecId] = AfterLoop(@, L, "re")]
        /\ inst' = destroyInstance(inst, vm, ok)
  /\ UNCHANGED <<config, wrapper, rd, sameMs, tdest, events, logs, now, nrec>>

\* reapErrorVms returned, reapStaleProvisioning starts.
ReRet ==
  /\ co[RecId].pc = "re_ret"
  /\ LET L == reapStaleProvisioning(World)
     IN Commit(L.W) /\ co' = [co EXCEPT ![RecId] = AfterLoop(@, L, "rs")]
  /\ UNCHANGED <<config, wrapper, rd, sameMs, inst, tdest, events, logs, now, faults, nrec>>

\* reapIdleVms returned to reconcile, releaseOrphans starts.
RecRiRet ==
  /\ co[RecId].pc = "ri_ret"
  /\ co[RecId].kind = "recover"
  /\ LET L == releaseOrphans(World)
     IN Commit(L.W) /\ co' = [co EXCEPT ![RecId] = AfterLoop(@, L, "ro")]
  /\ UNCHANGED <<config, wrapper, rd, sameMs, inst, tdest, events, logs, now, faults, nrec>>

\* releaseOrphans returned to reconcile: the provider scan awaits listInstances
\* of the first slot.
RecRoRet ==
  /\ co[RecId].pc = "ro_ret"
  /\ co[RecId].kind = "recover"
  /\ co' = [co EXCEPT ![RecId] = [@ EXCEPT !.pc = "rc_list", !.att = 1, !.cur = NoRef, !.q = <<>>]]
  /\ UNCHANGED <<config, wrapper, rd, sameMs, vms, tasks, inst, timers, tdest, pend, events, logs, now, faults, nrec>>

\* The provider scan's inner loop over the listed instances (q: row indexes of
\* the instances), run until it awaits a destroyInstance; after the last slot
\* ensureWarm runs and reconcile returns.
RECURSIVE scanLoop(_, _, _)
scanLoop(W, c, q) ==
  IF q = <<>>
  THEN IF c.att < Len(config)
       THEN [W |-> W, c |-> [c EXCEPT !.pc = "rc_list", !.att = @ + 1, !.cur = NoRef, !.q = <<>>]]
       ELSE [W |-> ensureWarm(W), c |-> [c EXCEPT !.pc = "rc_ret", !.att = 0, !.cur = NoRef, !.q = <<>>]]
  ELSE LET r == Head(q) IN
       IF ~W.v[r].real \/ W.v[r].status = "destroyed"
       THEN [W |-> W, c |-> [c EXCEPT !.pc = "rc_scan", !.cur = Key(r, TRUE), !.q = Tail(q)]]
       ELSE scanLoop(W, c, Tail(q))

listInstances(name) ==
  SeqOfSet({r \in Rows : vms[r].provider = name /\ inst[r] \in {"pending", "active"}})

\* listInstances answered (or raised: the slot is skipped).
RcListDone(ok) ==
  /\ co[RecId].pc = "rc_list"
  /\ Fault(ok)
  /\ LET c == co[RecId]
         a == scanLoop(World, c, IF ok THEN listInstances(config[c.att].name) ELSE <<>>)
     IN Commit(a.W) /\ co' = [co EXCEPT ![RecId] = a.c]
  /\ UNCHANGED <<config, wrapper, rd, sameMs, inst, tdest, events, logs, now, nrec>>

\* The scan's destroyInstance of an unknown instance returned or raised.
RcScanDone(ok) ==
  /\ co[RecId].pc = "rc_scan"
  /\ Fault(ok)
  /\ LET a == scanLoop(World, co[RecId], co[RecId].q)
     IN Commit(a.W) /\ co' = [co EXCEPT ![RecId] = a.c]
  /\ inst' = destroyInstance(inst, co[RecId].cur, ok)
  /\ UNCHANGED <<config, wrapper, rd, sameMs, tdest, events, logs, now, nrec>>

\* ------------------------------------------- recover: the in-flight tasks
FreeResumer(C) ==
  IF \E p \in Resumers : C[p].pc = "idle"
  THEN CHOOSE p \in Resumers : C[p].pc = "idle" /\ \A o \in Resumers : C[o].pc = "idle" => p <= o
  ELSE RecId

\* resumeTask: a new log writer and a new event writer, then run() up to the
\* first probe of pollForCompletion.
resumeTask(X, t, ref) ==
  LET p == FreeResumer(X.co) IN
  IF p = RecId THEN [X EXCEPT !.W.full = TRUE]
  ELSE [X EXCEPT !.co[p] = pollStart([Idle EXCEPT !.kind = "resume", !.task = t, !.vm = ref,
                                                  !.held = TRUE]),
                 !.ev = emit(@, t, 0, "phase", "agent_run"),
                 !.lg = append(@, t, "text")]

\* A recover whose loop ends after the first task whose VM it releases.
RECURSIVE recLoopStops(_, _)
recLoopStops(X, q) ==
  IF q = <<>> \/ X.W.full THEN [X EXCEPT !.co[RecId] = Done(@)]
  ELSE LET task == Head(q)
           ref == Key(task.vm_id, TRUE)
           failed(msg) == [X EXCEPT !.W.t = failTask(@, task.id, msg, <<>>)]
       IN IF task.status = "assigned"
          THEN LET X1 == failed("Process restarted during setup")
                   rel == releaseVmBegin(X1.W, ref)
               IN IF task.vm_id = NULL THEN recLoopStops(X1, Tail(q))
                  ELSE [X1 EXCEPT !.W = rel.W,
                                  !.co[RecId] = [@ EXCEPT !.pc = IF rel.wait THEN "rv_destroy" ELSE "rv_next",
                                                          !.cur = ref, !.q = <<>>]]
          ELSE IF task.vm_id = NULL
          THEN recLoopStops(failed("No VM associated with running task"), Tail(q))
          ELSE IF ~Match(X.W.v, ref) \/ X.W.v[ref.r].status \in {"destroyed", "error"}
          THEN recLoopStops(failed("VM no longer available after restart"), Tail(q))
          ELSE recLoopStops(resumeTask(X, task.id, ref), Tail(q))

\* recover's loop over the in-flight tasks, run until it awaits a releaseVm
\* or the list is empty.
RECURSIVE recLoop(_, _)
recLoop(X, q) ==
  IF q = <<>> \/ X.W.full THEN [X EXCEPT !.co[RecId] = Done(@)]
  ELSE LET task == Head(q)
           ref == Key(task.vm_id, TRUE)
           failed(msg) == [X EXCEPT !.W.t = failTask(@, task.id, msg, <<>>)]
       IN IF task.status = "assigned"
          THEN LET X1 == failed("Process restarted during setup")
                   rel == releaseVmBegin(X1.W, ref)
               IN IF task.vm_id = NULL THEN recLoop(X1, Tail(q))
                  ELSE [X1 EXCEPT !.W = rel.W,
                                  !.co[RecId] = [@ EXCEPT !.pc = IF rel.wait THEN "rv_destroy" ELSE "rv_next",
                                                          !.cur = ref, !.q = Tail(q)]]
          ELSE IF task.vm_id = NULL
          THEN recLoop(failed("No VM associated with running task"), Tail(q))
          ELSE IF ~Match(X.W.v, ref) \/ X.W.v[ref.r].status \in {"destroyed", "error"}
          THEN recLoop(failed("VM no longer available after restart"), Tail(q))
          ELSE recLoop(resumeTask(X, task.id, ref), Tail(q))

Whole == [W |-> World, co |-> co, ev |-> events, lg |-> logs]

CommitAll(X) ==
  /\ Commit(X.W)
  /\ co' = X.co
  /\ events' = X.ev
  /\ logs' = X.lg

\* reconcile returned: recover reads the in-flight tasks and starts its loop.
RcRet ==
  /\ co[RecId].pc = "rc_ret"
  /\ CommitAll(recLoop(Whole, getInFlightTasks(tasks)))
  /\ UNCHANGED <<config, wrapper, rd, sameMs, inst, tdest, now, faults, nrec>>

\* recover: the releaseVm of an assigned task's VM finished in destroyVm.
RvDestroyDone(ok) ==
  /\ co[RecId].pc = "rv_destroy"
  /\ Fault(ok)
  /\ LET X1 == [Whole EXCEPT !.W.v = destroyVmEnd(vms, co[RecId].cur, ok)]
     IN CommitAll(recLoop(X1, co[RecId].q))
  /\ inst' = destroyInstance(inst, co[RecId].cur, ok)
  /\ UNCHANGED <<config, wrapper, rd, sameMs, tdest, now, nrec>>

\* recover: the releaseVm of an assigned task's VM returned without destroying.
RvNext ==
  /\ co[RecId].pc = "rv_next"
  /\ CommitAll(recLoop(Whole, co[RecId].q))
  /\ UNCHANGED <<config, wrapper, rd, sameMs, inst, tdest, now, faults, nrec>>

\* ------------------------------------- timers, background creates, clock
\* An idle-reap timer fires: destroyVm if the VM is still ready.
TimerFire(tm) ==
  /\ tm \in timers
  /\ now >= tm.due
  /\ LET ref == Key(tm.vm, TRUE)
         W1 == [World EXCEPT !.tm = @ \ {tm}]
         d == destroyVmBegin(W1, ref)
     IN IF Match(vms, ref) /\ vms[tm.vm].status = "ready"
        THEN Commit(d.W) /\ tdest' = IF d.wait THEN tdest \cup {tm.vm} ELSE tdest
        ELSE Commit(W1) /\ tdest' = tdest
  /\ UNCHANGED <<config, wrapper, rd, sameMs, inst, co, events, logs, now, faults, nrec>>

\* The timer's destroyVm finished: ensureWarm on success, a log line otherwise.
TimerDestroyDone(r, ok) ==
  /\ r \in tdest
  /\ Fault(ok)
  /\ tdest' = tdest \ {r}
  /\ LET W1 == [World EXCEPT !.v = destroyVmEnd(vms, Key(r, TRUE), ok)]
     IN Commit(IF ok THEN ensureWarm(W1) ELSE W1)
  /\ inst' = destroyInstance(inst, Key(r, TRUE), ok)
  /\ UNCHANGED <<config, wrapper, rd, sameMs, co, events, logs, now, nrec>>

\* A createInstance started by ensureWarm returned or raised.
WarmCreateDone(r, ok) ==
  /\ r \in pend
  /\ Fault(ok)
  /\ pend' = pend \ {r}
  /\ vms' = IF ~Match(vms, Key(r, FALSE)) THEN vms
            ELSE IF ok THEN [vms EXCEPT ![r].real = TRUE]
            ELSE markError(vms, Key(r, FALSE))
  /\ inst' = IF ok /\ inst[r] = "none" THEN [inst EXCEPT ![r] = "pending"] ELSE inst
  /\ UNCHANGED <<config, wrapper, rd, sameMs, tasks, co, timers, tdest, events, logs, now, nrec>>

\* The provider has created the instance of a createInstance call that has not
\* been answered (the row still carries its temporary label).
CreateLands(r) ==
  /\ inst[r] = "none"
  /\ vms[r].status \notin {"absent", "error"}
  /\ ~vms[r].real
  /\ inst' = [inst EXCEPT ![r] = "pending"]
  /\ UNCHANGED <<config, wrapper, rd, sameMs, vms, tasks, co, timers, tdest, pend, events, logs, now, faults, nrec>>

\* Steps that take no time, or far less than a pause.
Urgent ==
  {"ro_ret", "rs_ret", "ri_ret", "re_ret", "bind", "assign", "launch", "collect", "catch",
   "release", "final", "rc_ret", "rv_next"}

Polling == {"probe", "delta", "sleep"}

\* A pause: the clock moves by PauseUnits.  setupTask can spend one pause, not
\* two, between assignTask and setBranch; a live poll loop iterates every 5 s
\* and so has touched its task by the end of the pause.
Tick ==
  /\ now + PauseUnits <= 1 + MaxTicks * PauseUnits
  /\ \A p \in Procs : co[p].pc \notin Urgent /\ (co[p].pc = "prep" => co[p].start = now)
  /\ now' = now + PauseUnits
  /\ tasks' = [t \in Tasks |->
       IF \E p \in Procs : co[p].pc \in Polling /\ co[p].task = t
       THEN [tasks[t] EXCEPT !.updated_at = now + PauseUnits] ELSE tasks[t]]
  /\ UNCHANGED <<config, wrapper, rd, sameMs, vms, inst, co, timers, tdest, pend, events, logs, faults, nrec>>

\* The process that runs executeTask dies: its coroutines, timers and
\* fire-and-forget calls are gone, the database and the provider stay as they are.
Crash ==
  /\ nrec = 0
  /\ co[1].pc \notin {"idle", "done"}
  /\ co' = [p \in Procs |-> IF co[p].pc = "idle" THEN co[p] ELSE Done(co[p])]
  /\ timers' = {}
  /\ tdest' = {}
  /\ pend' = {}
  /\ UNCHANGED <<config, wrapper, rd, sameMs, vms, tasks, inst, events, logs, now, faults, nrec>>

\* Two tasks submitted to one orchestrator.
Next ==
  \/ \E t \in Tasks : StartTask(t)
  \/ \E p \in Procs, ok \in BOOLEAN : RoDestroyDone(p, ok)
  \/ \E p \in Procs : AcqRoRet(p)
  \/ \E p \in Procs, ok \in BOOLEAN : RsDestroyDone(p, ok)
  \/ \E p \in Procs : RsRet(p)
  \/ \E p \in Procs, ok \in BOOLEAN : RiDestroyDone(p, ok)
  \/ \E p \in Procs : AcqSelect(p)
  \/ \E p \in Procs, ok \in BOOLEAN : PvCreateDone(p, ok)
  \/ \E p \in Procs, ok \in BOOLEAN : PvWaitDone(p, ok)
  \/ \E p \in Procs, ok \in BOOLEAN : PvCleanupDone(p, ok)
  \/ \E p \in Procs : AcqBind(p)
  \/ \E p \in Procs : SetupAssign(p)
  \/ \E p \in Procs, n \in 0..Len(SetupPhases) : SetupPrepare(p, n)
  \/ \E p \in Procs, ok \in BOOLEAN : SetupLaunch(p, ok)
  \/ \E p \in Procs, ok \in BOOLEAN, size \in 0..MaxOut, isDone \in BOOLEAN : PollProbe(p, ok, size, isDone)
  \/ \E p \in Procs, ok \in BOOLEAN : PollDelta(p, ok)
  \/ \E p \in Procs : PollSleep(p)
  \/ \E p \in Procs, ok \in BOOLEAN, x \in ExitCodes, prUrl \in BOOLEAN : Collect(p, ok, x, prUrl)
  \/ \E p \in Procs : Catch(p)
  \/ \E p \in Procs : Release(p)
  \/ \E p \in Procs, ok \in BOOLEAN : RelDestroyDone(p, ok)
  \/ \E p \in Procs : Final(p)
  \/ \E tm \in timers : TimerFire(tm)
  \/ \E r \in Rows, ok \in BOOLEAN : TimerDestroyDone(r, ok)
  \/ \E r \in Rows, ok \in BOOLEAN : WarmCreateDone(r, ok)
  \/ Tick

Spec == Init /\ [][Next]_vars

\* One task, a crash of its process or not, and a recover() call.
NextRecover ==
  \/ StartTask(1)
  \/ \E p \in Procs, ok \in BOOLEAN : RoDestroyDone(p, ok)
  \/ \E p \in Procs : AcqRoRet(p)
  \/ \E p \in Procs, ok \in BOOLEAN : RsDestroyDone(p, ok)
  \/ \E p \in Procs : RsRet(p)
  \/ \E p \in Procs, ok \in BOOLEAN : RiDestroyDone(p, ok)
  \/ \E p \in Procs : AcqSelect(p)
  \/ \E p \in Procs, ok \in BOOLEAN : PvCreateDone(p, ok)
  \/ \E p \in Procs, ok \in BOOLEAN : PvWaitDone(p, ok)
  \/ \E p \in Procs, ok \in BOOLEAN : PvCleanupDone(p, ok)
  \/ \E p \in Procs : AcqBind(p)
  \/ \E p \in Procs : SetupAssign(p)
  \/ \E p \in Procs, n \in 0..Len(SetupPhases) : SetupPrepare(p, n)
  \/ \E p \in Procs, ok \in BOOLEAN : SetupLaunch(p, ok)
  \/ \E p \in Procs, ok \in BOOLEAN, size \in 0..MaxOut, isDone \in BOOLEAN : PollProbe(p, ok, size, isDone)
  \/ \E p \in Procs, ok \in BOOLEAN : PollDelta(p, ok)
  \/ \E p \in Procs : PollSleep(p)
  \/ \E p \in Procs, ok \in BOOLEAN, x \in ExitCodes, prUrl \in BOOLEAN : Collect(p, ok, x, prUrl)
  \/ \E p \in Procs : Catch(p)
  \/ \E p \in Procs : Release(p)
  \/ \E p \in Procs, ok \in BOOLEAN : RelDestroyDone(p, ok)
  \/ \E p \in Procs : Final(p)
  \/ RecoverStart
  \/ \E out \in {"missing", "pending", "active", "raise"} : RcGetDone(out)
  \/ \E ok \in BOOLEAN : ReDestroyDone(ok)
  \/ ReRet
  \/ RecRiRet
  \/ RecRoRet
  \/ \E ok \in BOOLEAN : RcListDone(ok)
  \/ \E ok \in BOOLEAN : RcScanDone(ok)
  \/ RcRet
  \/ \E ok \in BOOLEAN : RvDestroyDone(ok)
  \/ RvNext
  \/ \E tm \in timers : TimerFire(tm)
  \/ \E r \in Rows, ok \in BOOLEAN : TimerDestroyDone(r, ok)
  \/ \E r \in Rows, ok \in BOOLEAN : WarmCreateDone(r, ok)
  \/ \E r \in Rows : CreateLands(r)
  \/ Tick
  \/ Crash

\* The restart runs start from the slots whose pool holds one VM.
InitRecover == Init /\ config[1].maxPoolSize = 1

SpecRecover == InitRecover /\ [][NextRecover]_vars

\* ------------------------------------------------------------ tail readers
\* `hal run` / `hal logs <task>`: tailLog is called for a task of the store
\* and runs up to its first sleep.
TailStart(k, t) ==
  /\ rd[k].pc = "idle"
  /\ tasks[t].status # "absent"
  /\ rd' = [rd EXCEPT ![k] = tailWait([TailIdle EXCEPT !.task = t, !.live = ~isTaskDone(tasks, t)],
                                      logs, tasks)]
  /\ UNCHANGED <<config, wrapper, sameMs, vms, tasks, inst, co, timers, tdest, pend, events, logs, now, faults, nrec>>

\* A reader's sleep (250 ms, or 500 ms while the file is missing) ended.
TailWake(k) ==
  /\ rd[k].pc \in {"wait", "sleep"}
  /\ rd' = [rd EXCEPT ![k] = IF @.pc = "wait" THEN tailWait(@, logs, tasks)
                             ELSE tailIter(@, logs, tasks)]
  /\ UNCHANGED <<config, wrapper, sameMs, vms, tasks, inst, co, timers, tdest, pend, events, logs, now, faults, nrec>>

\* One task and the readers of its log.
NextTail ==
  \/ StartTask(1)
  \/ \E p \in Procs : AcqRoRet(p)
  \/ \E p \in Procs : RsRet(p)
  \/ \E p \in Procs : AcqSelect(p)
  \/ \E p \in Procs, ok \in BOOLEAN : PvCreateDone(p, ok)
  \/ \E p \in Procs, ok \in BOOLEAN : PvWaitDone(p, ok)
  \/ \E p \in Procs, ok \in BOOLEAN : PvCleanupDone(p, ok)
  \/ \E p \in Procs : AcqBind(p)
  \/ \E p \in Procs : SetupAssign(p)
  \/ \E p \in Procs, n \in 0..Len(SetupPhases) : SetupPrepare(p, n)
  \/ \E p \in Procs, ok \in BOOLEAN : SetupLaunch(p, ok)
  \/ \E p \in Procs, ok \in BOOLEAN, size \in 0..MaxOut, isDone \in BOOLEAN : PollProbe(p, ok, size, isDone)
  \/ \E p \in Procs, ok \in BOOLEAN : PollDelta(p, ok)
  \/ \E p \in Procs : PollSleep(p)
  \/ \E p \in Procs, ok \in BOOLEAN, x \in ExitCodes, prUrl \in BOOLEAN : Collect(p, ok, x, prUrl)
  \/ \E p \in Procs : Catch(p)
  \/ \E p \in Procs : Release(p)
  \/ \E p \in Procs, ok \in BOOLEAN : RelDestroyDone(p, ok)
  \/ \E p \in Procs : Final(p)
  \/ \E tm \in timers : TimerFire(tm)
  \/ \E r \in Rows, ok \in BOOLEAN : TimerDestroyDone(r, ok)
  \/ \E r \in Rows, ok \in BOOLEAN : WarmCreateDone(r, ok)
  \/ \E k \in Readers, t \in Tasks : TailStart(k, t)
  \/ \E k \in Readers : TailWake(k)
  \/ Tick

SpecTail == Init /\ [][NextTail]_vars

\* ---------------------------------------------- two tasks, a crash, recover
\* One slot with the defaults of a provider that keeps no warm pool
\* (maxPoolSize 5, idleTimeoutMs 0, minReady 0) and an empty store.
InitStale ==
  /\ config = <<Slot("a", 5, 1, 0, 0)>>
  /\ vms = [r \in Rows |-> AbsentVm]
  /\ tasks = [t \in Tasks |-> AbsentTask]
  /\ inst = [r \in Rows |-> "none"]
  /\ co = [p \in Procs |-> Idle]
  /\ timers = {}
  /\ tdest = {}
  /\ pend = {}
  /\ events = [t \in Tasks |-> <<>>]
  /\ logs = [t \in Tasks |-> <<>>]
  /\ now = 1
  /\ faults = 0
  /\ nrec = 0
  /\ rd = [k \in Readers |-> TailIdle]
  /\ sameMs = FALSE
  /\ wrapper = WrapperOff

\* Two tasks that get as far as the first probe of their poll loop, a crash of
\* their process or not, and a recover() call.
NextStale ==
  \/ \E t \in Tasks : StartTask(t)
  \/ \E p \in Procs, ok \in BOOLEAN : RoDestroyDone(p, ok)
  \/ \E p \in Procs : AcqRoRet(p)
  \/ \E p \in Procs, ok \in BOOLEAN : RsDestroyDone(p, ok)
  \/ \E p \in Procs : RsRet(p)
  \/ \E p \in Procs : AcqSelect(p)
  \/ \E p \in Procs, ok \in BOOLEAN : PvCreateDone(p, ok)
  \/ \E p \in Procs, ok \in BOOLEAN : PvWaitDone(p, ok)
  \/ \E p \in Procs, ok \in BOOLEAN : PvCleanupDone(p, ok)
  \/ \E p \in Procs : AcqBind(p)
  \/ \E p \in Procs : SetupAssign(p)
  \/ \E p \in Procs, n \in 0..Len(SetupPhases) : SetupPrepare(p, n)
  \/ \E p \in Procs, ok \in BOOLEAN : SetupLaunch(p, ok)
  \/ \E p \in Procs : Catch(p)
  \/ RecoverStart
  \/ \E out \in {"missing", "pending", "active", "raise"} : RcGetDone(out)
  \/ \E ok \in BOOLEAN : ReDestroyDone(ok)
  \/ ReRet
  \/ RecRiRet
  \/ RecRoRet
  \/ \E ok \in BOOLEAN : RcListDone(ok)
  \/ \E ok \in BOOLEAN : RcScanDone(ok)
  \/ RcRet
  \/ \E ok \in BOOLEAN : RvDestroyDone(ok)
  \/ \E r \in Rows : CreateLands(r)
  \/ Tick
  \/ Crash

SpecStale == InitStale /\ [][NextStale]_vars

\* --------------------------------------------------- a warm pool of two VMs
\* HAL_MIN_READY=2 on a provider with an idle timeout; the run may or may not
\* be one where the calls of a deficit loop read the same millisecond.
InitWarm ==
  /\ config = <<Slot("a", 5, 1, 12, 2)>>
  /\ vms = [r \in Rows |-> AbsentVm]
  /\ tasks = [t \in Tasks |-> AbsentTask]
  /\ inst = [r \in Rows |-> "none"]
  /\ co = [p \in Procs |-> Idle]
  /\ timers = {}
  /\ tdest = {}
  /\ pend = {}
  /\ events = [t \in Tasks |-> <<>>]
  /\ logs = [t \in Tasks |-> <<>>]
  /\ now = 1
  /\ faults = 0
  /\ nrec = 0
  /\ rd = [k \in Readers |-> TailIdle]
  /\ sameMs \in BOOLEAN
  /\ wrapper = WrapperOff

NextWarm ==
  \/ StartTask(1)
  \/ \E p \in Procs : AcqRoRet(p)
  \/ \E p \in Procs, ok \in BOOLEAN : RsDestroyDone(p, ok)
  \/ \E p \in Procs : RsRet(p)
  \/ \E p \in Procs, ok \in BOOLEAN : RiDestroyDone(p, ok)
  \/ \E p \in Procs : AcqSelect(p)
  \/ \E p \in Procs, ok \in BOOLEAN : PvCreateDone(p, ok)
  \/ \E p \in Procs, ok \in BOOLEAN : PvWaitDone(p, ok)
  \/ \E p \in Procs, ok \in BOOLEAN : PvCleanupDone(p, ok)
  \/ \E p \in Procs : AcqBind(p)
  \/ \E p \in Procs : SetupAssign(p)
  \/ \E p \in Procs, n \in 0..Len(SetupPhases) : SetupPrepare(p, n)
  \/ \E p \in Procs, ok \in BOOLEAN : SetupLaunch(p, ok)
  \/ \E p \in Procs, ok \in BOOLEAN, size \in 0..MaxOut, isDone \in BOOLEAN : PollProbe(p, ok, size, isDone)
  \/ \E p \in Procs, ok \in BOOLEAN : PollDelta(p, ok)
  \/ \E p \in Procs : PollSleep(p)
  \/ \E p \in Procs, ok \in BOOLEAN, x \in ExitCodes, prUrl \in BOOLEAN : Collect(p, ok, x, prUrl)
  \/ \E p \in Procs : Catch(p)
  \/ \E p \in Procs : Release(p)
  \/ \E p \in Procs : Final(p)
  \/ RecoverStart
  \/ \E out \in {"missing", "pending", "active", "raise"} : RcGetDone(out)
  \/ \E ok \in BOOLEAN : ReDestroyDone(ok)
  \/ ReRet
  \/ RecRiRet
  \/ RecRoRet
  \/ \E ok \in BOOLEAN : RcListDone(ok)
  \/ \E ok \in BOOLEAN : RcScanDone(ok)
  \/ RcRet
  \/ \E tm \in timers : TimerFire(tm)
  \/ \E r \in Rows, ok \in BOOLEAN : TimerDestroyDone(r, ok)
  \/ \E r \in Rows, ok \in BOOLEAN : WarmCreateDone(r, ok)
  \/ \E r \in Rows : CreateLands(r)
  \/ Tick
  \/ Crash

SpecWarm == InitWarm /\ [][NextWarm]_vars

\* ------------------------------------------- what the done sentinel holds
Chars == {"0", "1", "7", "t", "-", " "}

RECURSIVE SeqsUpTo(_)
SeqsUpTo(n) ==
  IF n = 0 THEN {<<>>}
  ELSE LET S == SeqsUpTo(n - 1) IN S \cup {Append(x, ch) : x \in S, ch \in Chars}

Contents == SeqsUpTo(MaxLen)

\* One task from startTask to the end of executeTask, the sentinel holding
\* any text.
NextCollect ==
  \/ StartTask(1)
  \/ \E p \in Procs : AcqRoRet(p)
  \/ \E p \in Procs : RsRet(p)
  \/ \E p \in Procs : AcqSelect(p)
  \/ \E p \in Procs, ok \in BOOLEAN : PvCreateDone(p, ok)
  \/ \E p \in Procs, ok \in BOOLEAN : PvWaitDone(p, ok)
  \/ \E p \in Procs, ok \in BOOLEAN : PvCleanupDone(p, ok)
  \/ \E p \in Procs : AcqBind(p)
  \/ \E p \in Procs : SetupAssign(p)
  \/ \E p \in Procs, n \in 0..Len(SetupPhases) : SetupPrepare(p, n)
  \/ \E p \in Procs, ok \in BOOLEAN : SetupLaunch(p, ok)
  \/ \E p \in Procs, ok \in BOOLEAN, size \in 0..MaxOut, isDone \in BOOLEAN : PollProbe(p, ok, size, isDone)
  \/ \E p \in Procs, ok \in BOOLEAN : PollDelta(p, ok)
  \/ \E p \in Procs : PollSleep(p)
  \/ \E p \in Procs, ok \in BOOLEAN, content \in Contents, diffStat \in BOOLEAN, prUrl \in BOOLEAN :
       CollectResults(p, ok, content, diffStat, prUrl)
  \/ \E p \in Procs : Catch(p)
  \/ \E p \in Procs : Release(p)
  \/ \E p \in Procs, ok \in BOOLEAN : RelDestroyDone(p, ok)
  \/ \E p \in Procs : Final(p)

SpecCollect == Init /\ [][NextCollect]_vars

\* -------------------------------------------------- the wrapper script
\* One task whose wrapper script is followed, with or without planFirst.
InitWrapper ==
  /\ config \in Configs
  /\ vms = [r \in Rows |-> AbsentVm]
  /\ tasks = [t \in Tasks |-> AbsentTask]
  /\ inst = [r \in Rows |-> "none"]
  /\ co = [p \in Procs |-> Idle]
  /\ timers = {}
  /\ tdest = {}
  /\ pend = {}
  /\ events = [t \in Tasks |-> <<>>]
  /\ logs = [t \in Tasks |-> <<>>]
  /\ now = 1
  /\ faults = 0
  /\ nrec = 0
  /\ rd = [k \in Readers |-> TailIdle]
  /\ sameMs = FALSE
  /\ \E planFirst \in BOOLEAN : wrapper = WrapperStart(planFirst)

\* The first agent run of the launched script returned `code`; with planFirst
\* it ran with the PLAN context and md tells whether it left plan.md.
WrapperFirstRun(code, md) ==
  /\ wrapper.pc = "ready"
  /\ \E t \in Tasks : tasks[t].status = "running"
  /\ wrapper' =
       IF wrapper.planFirst
       THEN [wrapper EXCEPT !.runs = <<"PLAN">>, !.planMd = md, !.last = code, !.PLAN_EXIT = code,
                            !.EXIT_CODE = IF code # 0 THEN code ELSE @,
                            !.pc = IF code # 0 THEN "artifacts" ELSE "phase2"]
       ELSE [wrapper EXCEPT !.runs = <<"ORIGINAL">>, !.last = code, !.EXIT_CODE = code, !.pc = "artifacts"]
  /\ UNCHANGED <<config, vms, tasks, inst, co, timers, tdest, pend, events, logs, now, faults, nrec, rd, sameMs>>

\* PLAN_EXIT was 0: without plan.md the agent runs with the original context,
\* with it the tree is reset and the agent runs with the EXECUTE context.
WrapperSecondRun(code) ==
  /\ wrapper.pc = "phase2"
  /\ wrapper' =
       IF ~wrapper.planMd
       THEN [wrapper EXCEPT !.runs = Append(@, "ORIGINAL"), !.last = code, !.EXIT_CODE = code,
                            !.pc = "artifacts"]
       ELSE [wrapper EXCEPT !.reset = TRUE, !.runs = Append(@, "EXECUTE"), !.last = code,
                            !.EXIT_CODE = code, !.pc = "artifacts"]
  /\ UNCHANGED <<config, vms, tasks, inst, co, timers, tdest, pend, events, logs, now, faults, nrec, rd, sameMs>>

\* Commit, push, artifacts, then `echo "$EXIT_CODE" > done` (the newline of
\* echo is the blank at the end).
WrapperSentinel ==
  /\ wrapper.pc = "artifacts"
  /\ wrapper' = [wrapper EXCEPT !.done = <<ToString(wrapper.EXIT_CODE), " ">>, !.pc = "done"]
  /\ UNCHANGED <<config, vms, tasks, inst, co, timers, tdest, pend, events, logs, now, faults, nrec, rd, sameMs>>

\* One task from startTask to the end of executeTask with its wrapper script:
\* the probe sees the sentinel once the script wrote it, and collectResults
\* reads what the script wrote; an agent run exits with 0, 1 or 7.
NextWrapper ==
  \/ StartTask(1)
  \/ \E p \in Procs : AcqRoRet(p)
  \/ \E p \in Procs : RsRet(p)
  \/ \E p \in Procs : AcqSelect(p)
  \/ \E p \in Procs, ok \in BOOLEAN : PvCreateDone(p, ok)
  \/ \E p \in Procs, ok \in BOOLEAN : PvWaitDone(p, ok)
  \/ \E p \in Procs, ok \in BOOLEAN : PvCleanupDone(p, ok)
  \/ \E p \in Procs : AcqBind(p)
  \/ \E p \in Procs : SetupAssign(p)
  \/ \E p \in Procs, n \in 0..Len(SetupPhases) : SetupPrepare(p, n)
  \/ \E p \in Procs, ok \in BOOLEAN : SetupLaunch(p, ok)
  \/ \E p \in Procs, ok \in BOOLEAN, size \in 0..MaxOut :
       PollProbe(p, ok, size, wrapper.pc = "done")
  \/ \E p \in Procs, ok \in BOOLEAN : PollDelta(p, ok)
  \/ \E p \in Procs : PollSleep(p)
  \/ \E p \in Procs, ok \in BOOLEAN, diffStat \in BOOLEAN, prUrl \in BOOLEAN :
       CollectResults(p, ok, wrapper.done, diffStat, prUrl)
  \/ \E p \in Procs : Catch(p)
  \/ \E p \in Procs : Release(p)
  \/ \E p \in Procs, ok \in BOOLEAN : RelDestroyDone(p, ok)
  \/ \E p \in Procs : Final(p)
  \/ \E code \in {0, 1, 7}, md \in BOOLEAN : WrapperFirstRun(code, md)
  \/ \E code \in {0, 1, 7} : WrapperSecondRun(code)
  \/ WrapperSentinel

SpecWrapper == InitWrapper /\ [][NextWrapper]_vars

\* ------------------------------------------------ a pre-warmed VM's life
\* The provider finishes booting an instance: its status goes from pending to
\* active.
InstanceBoots(r) ==
  /\ inst[r] = "pending"
  /\ inst' = [inst EXCEPT ![r] = "active"]
  /\ UNCHANGED <<config, wrapper, rd, sameMs, vms, tasks, co, timers, tdest, pend, events, logs, now, faults, nrec>>

\* The pool's normal operation (no recover, no reconcile) with the provider
\* booting what was created.
NextPrewarm ==
  \/ Next
  \/ \E r \in Rows : InstanceBoots(r)

\* A step that can be taken is taken in the end (every await resolves, every
\* timer fires, the clock moves).
SpecPrewarm ==
  /\ Init
  /\ [][NextPrewarm]_vars
  /\ WF_vars(NextPrewarm)

\* ------------------------------------------------ a store with an orphan
\* The store an earlier run left: its task (not one of the tasks followed
\* here) failed during setup, so its executeTask had no vm to release and the
\* row is still assigned to it; the slot holds one VM.
InitOrphan ==
  /\ config \in {c \in Configs : c[1].maxPoolSize = 1}
  /\ vms = [r \in Rows |->
              IF r = 1
              THEN [status |-> "assigned", provider |-> config[1].name, task_id |-> NTasks + 1,
                    idle_since |-> NULL, created_at |-> 1, real |-> TRUE]
              ELSE AbsentVm]
  /\ tasks = [t \in Tasks |-> AbsentTask]
  /\ inst = [r \in Rows |-> IF r = 1 THEN "active" ELSE "none"]
  /\ co = [p \in Procs |-> Idle]
  /\ timers = {}
  /\ tdest = {}
  /\ pend = {}
  /\ events = [t \in Tasks |-> <<>>]
  /\ logs = [t \in Tasks |-> <<>>]
  /\ now = 1
  /\ faults = 0
  /\ nrec = 0
  /\ rd = [k \in Readers |-> TailIdle]
  /\ sameMs = FALSE
  /\ wrapper = WrapperOff

\* startTask calls on that store; the one VM row the store has room for
\* beside the orphan leaves provisionWithRetry no second attempt.
NextOrphan ==
  \/ \E t \in Tasks : StartTask(t)
  \/ \E p \in Procs, ok \in BOOLEAN : RoDestroyDone(p, ok)
  \/ \E p \in Procs : AcqRoRet(p)
  \/ \E p \in Procs, ok \in BOOLEAN : RsDestroyDone(p, ok)
  \/ \E p \in Procs : RsRet(p)
  \/ \E p \in Procs, ok \in BOOLEAN : RiDestroyDone(p, ok)
  \/ \E p \in Procs : AcqSelect(p)
  \/ \E p \in Procs, ok \in BOOLEAN : PvCreateDone(p, ok)
  \/ \E p \in Procs, ok \in BOOLEAN : PvWaitDone(p, ok)
  \/ \E p \in Procs : AcqBind(p)
  \/ \E p \in Procs : SetupAssign(p)
  \/ \E p \in Procs, n \in 0..Len(SetupPhases) : SetupPrepare(p, n)
  \/ \E p \in Procs, ok \in BOOLEAN : SetupLaunch(p, ok)
  \/ \E p \in Procs, ok \in BOOLEAN, size \in 0..MaxOut, isDone \in BOOLEAN : PollProbe(p, ok, size, isDone)
  \/ \E p \in Procs, ok \in BOOLEAN : PollDelta(p, ok)
  \/ \E p \in Procs : PollSleep(p)
  \/ \E p \in Procs, ok \in BOOLEAN, x \in ExitCodes, prUrl \in BOOLEAN : Collect(p, ok, x, prUrl)
  \/ \E p \in Procs : Catch(p)
  \/ \E p \in Procs : Release(p)
  \/ \E p \in Procs, ok \in BOOLEAN : RelDestroyDone(p, ok)
  \/ \E p \in Procs : Final(p)
  \/ \E tm \in timers : TimerFire(tm)
  \/ \E r \in Rows, ok \in BOOLEAN : TimerDestroyDone(r, ok)
  \/ \E r \in Rows, ok \in BOOLEAN : WarmCreateDone(r, ok)
  \/ Tick

SpecOrphan == InitOrphan /\ [][NextOrphan]_vars

\* ---------------------------------------------------- pickSlot on two slots
\* buildProviderSlots with two providers: maxPoolSize is parsed from the
\* environment, and PoolConfig lets priorities be equal.
PickConfigs ==
  { <<Slot("a", ma, pa, 0, 0), Slot("b", mb, pb, 0, 0)>> :
      ma \in 0..MaxVms, mb \in 0..MaxVms, pa \in 0..1, pb \in 0..1 }

InitPick ==
  /\ config \in PickConfigs
  /\ vms = [r \in Rows |-> AbsentVm]
  /\ tasks = [t \in Tasks |-> AbsentTask]
  /\ inst = [r \in Rows |-> "none"]
  /\ co = [p \in Procs |-> Idle]
  /\ timers = {}
  /\ tdest = {}
  /\ pend = {}
  /\ events = [t \in Tasks |-> <<>>]
  /\ logs = [t \in Tasks |-> <<>>]
  /\ now = 1
  /\ faults = 0
  /\ nrec = 0
  /\ rd = [k \in Readers |-> TailIdle]
  /\ sameMs = FALSE
  /\ wrapper = WrapperOff

NextPick ==
  \/ \E t \in Tasks : StartTask(t)
  \/ \E p \in Procs : AcqRoRet(p)
  \/ \E p \in Procs : RsRet(p)
  \/ \E p \in Procs : AcqSelect(p)
  \/ \E p \in Procs, ok \in BOOLEAN : PvCreateDone(p, ok)
  \/ \E p \in Procs, ok \in BOOLEAN : PvWaitDone(p, ok)
  \/ \E p \in Procs, ok \in BOOLEAN : PvCleanupDone(p, ok)
  \/ \E p \in Procs : AcqBind(p)
  \/ \E p \in Procs : Catch(p)

SpecPick == InitPick /\ [][NextPick]_vars

\* ================================================================ claims
\* C1 (capacity invariant P1): for every provider slot, the number of vms rows
\* of that provider in provisioning, ready or assigned never exceeds the slot's
\* maxPoolSize.
C1_Capacity ==
  \A i \in DOMAIN config : CountActive(vms, config[i].name) <= config[i].maxPoolSize

\* An executeTask that acquireVm has returned a VM to and that has not yet
\* reached its catch / finally blocks.
Holding == {"assign", "prep", "launch", "probe", "delta", "sleep", "collect"}

\* C2 (no double assignment B1): two acquireVm calls for different tasks never
\* return the same VM to both.
C2_NoDoubleAssignment ==
  \A p, q \in Tasks :
    (p # q /\ co[p].pc \in Holding /\ co[q].pc \in Holding) => co[p].vm.r # co[q].vm.r

\* C3 (binding invariant P2): an assigned row has a task_id, a row in any
\* other status has none.
C3_Binding ==
  \A r \in Rows :
    /\ vms[r].status = "assigned" => vms[r].task_id # NULL
    /\ vms[r].status \notin {"assigned", "absent"} => vms[r].task_id = NULL

\* C4 (idle invariant P3 / V3): a row with idle_since set is ready and unbound.
C4_Idle ==
  \A r \in Rows :
    vms[r].idle_since # NULL => (vms[r].status = "ready" /\ vms[r].task_id = NULL)

\* C5 (monotone tasks P4 / T1): a completed or failed task keeps its status
\* and its completed_at in every step.
C5_MonotoneTasks ==
  [][\A t \in Tasks :
       tasks[t].status \in {"completed", "failed"} =>
         /\ tasks'[t].status = tasks[t].status
         /\ tasks'[t].completed_at = tasks[t].completed_at]_vars

\* C6 (error path of executeTask): when executeTask has ended, the VM that
\* acquireVm bound to its task is no longer assigned to it, also when the
\* error was raised in setup after the bind.
C6_ReleasedOnError ==
  \A t \in Tasks :
    (co[t].kind = "exec" /\ co[t].pc = "done") =>
      \A r \in Rows : ~(vms[r].status = "assigned" /\ vms[r].task_id = t)

\* C7 (provider flake then success): a createInstance that raises on the
\* first attempt does not end acquireVm; the error reaches executeTask only
\* after maxAttempts attempts.
C7_CreateRetried ==
  \A p \in Tasks :
    (co[p].pc = "catch" /\ co[p].err = "createInstance failed") => co[p].att = maxAttempts

\* C8 (terminal VM states): a destroyed or error row never goes back to a
\* non-terminal status.
C8_TerminalVm ==
  [][\A r \in Rows : vms[r].status \in Terminal => vms'[r].status \in Terminal]_vars

\* C9 (event ordering P5): seq is strictly increasing along each task's
\* event file.
C9_SeqIncreasing ==
  \A t \in Tasks : \A i, j \in DOMAIN events[t] :
    i < j => events[t][i].seq < events[t][j].seq

\* C10: a task's event file holds at most one task_end and its log at most
\* one sentinel line.
C10_OneTaskEnd ==
  \A t \in Tasks :
    /\ Cardinality({i \in DOMAIN events[t] : events[t][i].type = "task_end"}) <= 1
    /\ Cardinality({i \in DOMAIN logs[t] : logs[t][i].k = "sentinel"}) <= 1

\* The results that the force-fail paths write: releaseOrphans' stale-task
\* UPDATE and recover's three failTask calls.
ForceFailResults ==
  {"Stale task (process died)", "Process restarted during setup",
   "No VM associated with running task", "VM no longer available after restart"}

\* C11 (finalized tasks): a task that was force-failed by releaseOrphans or
\* by recover, once no executeTask / resumeTask / recover is at work, has
\* exactly one task_start, exactly one task_end whose status is the row's
\* status, and a log that ends with the sentinel line.
C11_FinalizedStream ==
  \A t \in Tasks :
    ( /\ tasks[t].status \in {"completed", "failed"}
      /\ tasks[t].result \in ForceFailResults
      /\ \A p \in Procs : co[p].pc \in {"idle", "done"} ) =>
      /\ Cardinality({i \in DOMAIN events[t] : events[t][i].type = "task_start"}) = 1
      /\ Cardinality({i \in DOMAIN events[t] : events[t][i].type = "task_end"}) = 1
      /\ \A i \in DOMAIN events[t] :
           events[t][i].type = "task_end" => events[t][i].name = tasks[t].status
      /\ Len(logs[t]) > 0
      /\ logs[t][Len(logs[t])].k = "sentinel"

\* C12 (crash recovery): a recover() that starts from a store with task T
\* running on VM V, V assigned to T and present on the provider, and T's
\* heartbeat older than the stale threshold, and that meets no provider
\* failure, ends with T failed with result "Stale task (process died)", no
\* resumed poll, and V ready with idle_since set and no task_id when the
\* slot's idleTimeoutMs is positive, destroyed when it is 0.
C12_CrashRecovery ==
  [][( /\ co[RecId].kind = "recover"
       /\ co[RecId].pc \notin {"idle", "done"}
       /\ co'[RecId].pc = "done"
       /\ co[RecId].task # 0
       /\ co[RecId].start = now
       /\ faults' = 0 ) =>
     LET T == co[RecId].task
         V == co[RecId].vm.r
     IN /\ tasks'[T].status = "failed"
        /\ tasks'[T].result = "Stale task (process died)"
        /\ \A p \in Resumers : co'[p].pc = "idle"
        /\ IF idleTimeoutOf(vms[V].provider) > 0
           THEN /\ vms'[V].status = "ready"
                /\ vms'[V].idle_since # NULL
                /\ vms'[V].task_id = NULL
           ELSE vms'[V].status = "destroyed"]_vars

C12_Witness ==
  /\ co[RecId].pc = "done"
  /\ co[RecId].task # 0
  /\ faults = 0
  /\ tasks[co[RecId].task].result = "Stale task (process died)"
  /\ \E r \in Rows : vms[r].status = "ready" /\ vms[r].idle_since = now

\* C13 (agent timeout): once the poll loop has timed out and executeTask has
\* recorded the outcome, the task row is failed with exit_code = 1.
C13_AgentTimeout ==
  \A p \in Tasks :
    (co[p].err = "Agent timed out" /\ co[p].pc \in {"rel_destroy", "final"}) =>
      /\ tasks[co[p].task].status = "failed"
      /\ tasks[co[p].task].exit_code = <<1>>

\* C14 (capacity exhaustion): with one slot of maxPoolSize 1 and minReady 0,
\* an acquireVm that finds the slot taken throws the capacity error without
\* inserting a row and without starting a provisioning attempt, and its
\* executeTask ends with the task failed and the result
\* "... at capacity (total max: 1)".
C14_CapacityExhaustion ==
  [][\A p \in Tasks :
       (Len(config) = 1 /\ config[1].maxPoolSize = 1 /\ config[1].minReady = 0) =>
         /\ ( /\ co[p].pc # "catch"
              /\ co'[p].pc = "catch"
              /\ co'[p].err = capacityError(config) ) =>
              /\ \A r \in Rows : vms[r].status = "absent" => vms'[r].status = "absent"
              /\ co'[p].att = co[p].att
              /\ \E r \in Rows : vms[r].status \in Active
         /\ ( /\ co[p].pc = "catch"
              /\ co[p].err = capacityError(config)
              /\ co'[p].pc # "catch" ) =>
              /\ co'[p].pc = "done"
              /\ tasks'[p].status = "failed"
              /\ tasks'[p].result = "All provider slots are at capacity (total max: 1)"]_vars

C14_Witness ==
  /\ config[1].maxPoolSize = 1 /\ config[1].minReady = 0
  /\ co[1].pc \in {"pv_create", "pv_wait", "bind"} \cup Holding
  /\ co[2].pc = "done"
  /\ tasks[2].status = "failed"
  /\ tasks[2].result = "All provider slots are at capacity (total max: 1)"
  /\ Cardinality({r \in Rows : vms[r].status # "absent"}) = 1

\* C15 (warm reuse): in a slot with a positive idleTimeoutMs, when a second
\* task is started after the first has completed with exit 0 and released
\* its VM, and the clock has not moved since, the VM is ready with idle_since
\* set and unbound while the second task's acquireVm does its housekeeping,
\* and the SELECT step binds the second task to that same VM without
\* provisioning for it (the only row the step may insert is a warm-pool row
\* of ensureWarm).
C15_WarmReuse ==
  [][\A p \in Tasks :
       LET q == co[p].warm
           V == tasks[q].vm_id
       IN ( /\ q # 0
            /\ config[1].idleTimeoutMs > 0
            /\ tasks[q].completed_at = now
            /\ \A o \in Tasks \ {p, q} : tasks[o].status = "absent"
            /\ co[p].pc \in {"ro_ret", "ro_destroy", "rs_ret", "rs_destroy", "ri_ret",
                             "ri_destroy"} ) =>
            /\ vms[V].status = "ready"
            /\ vms[V].idle_since # NULL
            /\ vms[V].task_id = NULL
            /\ (co[p].pc = "ri_ret" /\ co'[p] # co[p]) =>
                 /\ co'[p].pc = "assign"
                 /\ co'[p].vm.r = V
                 /\ vms'[V].status = "assigned"
                 /\ vms'[V].task_id = p
                 /\ \A r \in Rows :
                      (vms[r].status = "absent" /\ vms'[r].status # "absent") => r \in pend']_vars

C15_Witness ==
  /\ config[1].maxPoolSize = 5
  /\ tasks[1].status = "completed"
  /\ tasks[1].exit_code = <<0>>
  /\ tasks[1].completed_at = now
  /\ co[1].pc = "done"
  /\ co[2].pc = "assign"
  /\ co[2].vm.r = tasks[1].vm_id
  /\ co[2].warm = 1
  /\ vms[tasks[1].vm_id].task_id = 2

\* C16 as stated: the event that follows task_start in a task's stream is
\* vm_acquired.
C16_FirstIsVmAcquired ==
  \A t \in Tasks :
    (Len(events[t]) >= 2 /\ events[t][1].type = "task_start") =>
      events[t][2].type = "vm_acquired"

\* C16 (amended): a task's stream starts with task_start and the
\* phase{vm_acquire} marker; vm_acquired, if present, is the event right
\* after that marker and nowhere else, and it carries the id of the VM
\* acquireVm bound (in the warm-reuse scenario the first task's VM).
C16_VmAcquiredAfterMarker ==
  \A t \in Tasks :
    LET e == events[t] IN
    /\ Len(e) >= 1 => e[1].type = "task_start"
    /\ Len(e) >= 2 => (e[2].type = "phase" /\ e[2].name = "vm_acquire")
    /\ \A i \in DOMAIN e : e[i].type = "vm_acquired" => i = 3
    /\ Len(e) >= 3 => e[3].type \in {"vm_acquired", "task_end"}
    /\ co[t].pc \in (Holding \ {"assign"}) =>
         /\ Len(e) >= 3
         /\ e[3].type = "vm_acquired"
         /\ e[3].name = ToString(co[t].vm.r)

C16_Witness ==
  /\ co[2].warm = 1
  /\ co[2].pc = "prep"
  /\ tasks[1].completed_at = now
  /\ events[2][3].type = "vm_acquired"
  /\ events[2][3].name = ToString(tasks[1].vm_id)

\* C17 (reap idempotence P7): from any state of the store, for reapIdleVms,
\* reapStaleProvisioning and releaseOrphans, and whatever the provider's
\* destroy calls answer, a second run right after the first (same clock,
\* same provider behaviour) finds no row to work on (it returns 0) and
\* changes no vms or tasks row.  (A first run that finds no row to work on
\* returns at once, and so does the second.)
C17_ReapIdempotent ==
  \A op \in {"ri", "rs", "ro"} :
    reapWork(op, World) > 0 =>
      \A oks \in [1 .. MaxVms -> BOOLEAN] :
        LET W1 == runReap(op, World, oks)
            W2 == runReap(op, W1, oks)
        IN /\ reapWork(op, W1) = 0
           /\ W2.v = W1.v
           /\ W2.t = W1.t

\* A state where each operation has work to do and the store is changed by a
\* first run in which the provider's destroy fails.
C17_Witness ==
  \E op \in {"ri", "rs", "ro"} :
    LET W1 == runReap(op, World, [k \in 1 .. MaxVms |-> FALSE])
    IN /\ reapWork(op, World) > 0
       /\ W1.v # vms
       /\ \E r \in Rows : W1.v[r].status = "error"

\* C18 (destroy idempotence R1): on a row that a successful destroyVm left
\* in destroyed, another destroyVm changes nothing in the table, makes no
\* provider call and raises no error.
C18_DestroyIdempotent ==
  \A r \in Rows :
    (vms[r].status = "destroyed" /\ vms[r].real /\ inst[r] = "gone") =>
      LET d == destroyVmBegin(World, Snap(vms, r))
      IN /\ d.W.v = vms
         /\ ~d.wait
         /\ ~d.threw

\* C19 (B2): when the slot of the VM has idleTimeoutMs <= 0 (an unknown slot
\* counts as 0), executeTask's releaseVm moves the row to destroying, with no
\* idle_since and no idle-reap timer, and waits for the destroy; when the
\* destroy returns the row is destroyed or error, still without idle_since
\* and without a timer.
C19_ReleaseInline ==
  [][\A p \in Tasks :
       /\ ( /\ co[p].pc = "release" \/ (co[p].pc = "catch" /\ co[p].held)
            /\ co'[p].pc # co[p].pc
            /\ Match(vms, co[p].vm)
            /\ idleTimeoutOf(vms[co[p].vm.r].provider) <= 0 ) =>
            /\ co'[p].pc = "rel_destroy"
            /\ vms'[co[p].vm.r].status = "destroying"
            /\ vms'[co[p].vm.r].idle_since = NULL
            /\ timers' = timers
       /\ ( /\ co[p].pc = "rel_destroy"
            /\ co'[p].pc # co[p].pc
            /\ Match(vms, co[p].cur)
            /\ idleTimeoutOf(vms[co[p].cur.r].provider) <= 0 ) =>
            /\ vms'[co[p].cur.r].status \in {"destroyed", "error"}
            /\ vms'[co[p].cur.r].idle_since = NULL
            /\ timers' = timers]_vars

C19_Witness ==
  \E p \in Tasks :
    /\ co[p].pc = "final"
    /\ tasks[p].status = "completed"
    /\ idleTimeoutOf(vms[co[p].cur.r].provider) = 0
    /\ vms[co[p].cur.r].status = "destroyed"
    /\ vms[co[p].cur.r].idle_since = NULL
    /\ timers = {}

C21_TailReaders ==
  \A j, k \in Readers :
    ( /\ rd[j].pc = "done" /\ rd[k].pc = "done"
      /\ rd[j].live /\ rd[k].live
      /\ rd[j].task = rd[k].task
      /\ co[rd[j].task].pc = "done" ) =>
      /\ rd[j].seen = rd[k].seen
      /\ rd[j].seen = logs[rd[j].task]
      /\ Len(rd[j].seen) > 0
      /\ rd[j].seen[Len(rd[j].seen)].k = "sentinel"

\* C22 (multi-row transitions): at no await point of releaseOrphans is there a
\* task of a dead process that has been force-failed as stale while a VM is
\* still assigned to it.
C22_ForceFailAtomic ==
  \A t \in Tasks :
    ( /\ tasks[t].status = "failed"
      /\ tasks[t].result = "Stale task (process died)"
      /\ co[t].pc = "done" ) =>
      \A r \in Rows : ~(vms[r].status = "assigned" /\ vms[r].task_id = t)

\* C23 (failure semantics): a step in which createInstance, waitForReady,
\* getInstance or listInstances raises never takes a VM the provider has
\* created (a row that carries the provider's id) out of provisioning /
\* ready / assigned, unless it hands the row to destroyVm (status
\* destroying).
C23_TransientKeepsAccounting ==
  [][\A p \in Procs :
       ( /\ co[p].pc \in {"pv_create", "pv_wait", "rc_get", "rc_list"}
         /\ co'[p] # co[p]
         /\ faults' > faults ) =>
         \A r \in Rows :
           (vms[r].real /\ vms[r].status \in Active /\ vms'[r].status \notin Active) =>
             vms'[r].status = "destroying"]_vars

\* C24 (reap loops): when the destroyVm of one VM fails inside reapIdleVms,
\* reapStaleProvisioning or releaseOrphans and the VM's instance exists at
\* the provider, the row is left in error (not destroyed, not removed) and
\* the same loop goes on: it awaits the destroy of the next VM or returns to
\* its caller.
C24_ReapFailureDemotes ==
  [][\A p \in Procs : \A op \in {"ri", "rs", "ro"} :
       ( /\ co[p].pc = op \o "_destroy"
         /\ co'[p] # co[p]
         /\ faults' > faults
         /\ Match(vms, co[p].cur)
         /\ co[p].cur.real
         /\ inst[co[p].cur.r] \in {"pending", "active"} ) =>
         /\ vms'[co[p].cur.r].status = "error"
         /\ co'[p].pc \in {op \o "_destroy", op \o "_ret"}]_vars

\* C25 (recover): every step of recover's loop over the in-flight tasks it
\* read after reconcile handles a prefix of what is left of that list, and
\* handles each task by its status in the list: an assigned task is failed
\* with "Process restarted during setup" and, if it has a vm_id, releaseVm is
\* started on that VM (the row is no longer bound to the task); a running
\* task without vm_id, or whose VM row is missing, destroyed or error, is
\* failed; a running task with a live VM is left running and exactly one
\* resumeTask coroutine is started for it, at the first probe of the poll
\* loop.  A releaseVm that fails does not end the loop.  When recover returns
\* no task whose executor is gone is in assigned.
C25_RecoverClassifies ==
  [][(co[RecId].pc \in {"rc_ret", "rv_destroy", "rv_next"} /\ co'[RecId] # co[RecId]) =>
       LET Q == IF co[RecId].pc = "rc_ret" THEN getInFlightTasks(tasks) ELSE co[RecId].q
           Q2 == IF co'[RecId].pc = "done" THEN <<>> ELSE co'[RecId].q
           n == Len(Q) - Len(Q2)
           V0 == IF co[RecId].pc = "rv_destroy"
                 THEN destroyVmEnd(vms, co[RecId].cur, faults' = faults) ELSE vms
           dead(e) == \/ ~Match(V0, Key(e.vm_id, TRUE))
                      \/ V0[e.vm_id].status \in {"destroyed", "error"}
           started(e) == {p \in Resumers : /\ co[p].pc = "idle" /\ co'[p].pc = "probe"
                                           /\ co'[p].kind = "resume" /\ co'[p].task = e.id
                                           /\ co'[p].vm.r = e.vm_id}
       IN /\ n >= 0
          /\ Q2 = SubSeq(Q, n + 1, Len(Q))
          /\ co'[RecId].pc \in {"done", "rv_destroy", "rv_next"}
          /\ \A i \in 1..n :
               LET e == Q[i] IN
               IF e.status = "assigned"
               THEN /\ tasks'[e.id].status = "failed"
                    /\ tasks'[e.id].result = "Process restarted during setup"
                    /\ e.vm_id # NULL =>
                         /\ i = n
                         /\ co'[RecId].pc \in {"rv_destroy", "rv_next"}
                         /\ co'[RecId].cur.r = e.vm_id
                         /\ Match(V0, Key(e.vm_id, TRUE)) =>
                              /\ vms'[e.vm_id].status \in {"destroying", "ready"}
                              /\ vms'[e.vm_id].task_id = NULL
               ELSE IF e.vm_id = NULL
               THEN /\ tasks'[e.id].status = "failed"
                    /\ tasks'[e.id].result = "No VM associated with running task"
               ELSE IF dead(e)
               THEN /\ tasks'[e.id].status = "failed"
                    /\ tasks'[e.id].result = "VM no longer available after restart"
               ELSE /\ tasks'[e.id] = tasks[e.id]
                    /\ Cardinality(started(e)) = 1
          /\ co'[RecId].pc = "done" =>
               \A t \in Tasks : co[t].pc \in {"idle", "done"} => tasks'[t].status # "assigned"]_vars

\* After a crash of the executors, recover has returned: it failed one task
\* that was in assigned, released its VM, and resumed the poll of another
\* task on its own VM.
C25_Witness ==
  /\ co[RecId].pc = "done"
  /\ co[RecId].kind = "recover"
  /\ \E t, u \in Tasks :
       /\ co[t].pc = "done" /\ co[u].pc = "done"
       /\ tasks[t].vm_id # tasks[u].vm_id
       /\ tasks[t].status = "failed"
       /\ tasks[t].result = "Process restarted during setup"
       /\ vms[tasks[t].vm_id].status \in {"destroyed", "error"}
       /\ tasks[u].status = "running"
       /\ \E p \in Resumers : co[p].kind = "resume" /\ co[p].task = u /\ co[p].pc = "probe"

\* C26 (heartbeat liveness): no step force-fails as stale a task whose
\* executeTask is alive between acquireVm's return and the end of
\* collectResults, and no step of another coroutine takes that task's VM
\* away from it.
C26_LiveNotStale ==
  [][\A t \in Tasks :
       (co[t].kind = "exec" /\ co[t].pc \in Holding /\ co'[t] = co[t]) =>
         /\ tasks[t].result # "Stale task (process died)" =>
              tasks'[t].result # "Stale task (process died)"
         /\ \A r \in Rows :
              (vms[r].status = "assigned" /\ vms[r].task_id = t /\ co[t].vm.r = r) =>
                (vms'[r].status = "assigned" /\ vms'[r].task_id = t)]_vars

\* C27 (pickSlot): a provisionVm call inserts its row for the configured slot
\* that has room (fewer than maxPoolSize rows in provisioning/ready/assigned)
\* and the smallest priority value, the earlier configured one on a tie; it
\* throws the capacity error, and inserts nothing, exactly when no slot has room.
C27_room(V) == {i \in DOMAIN config : CountActive(V, config[i].name) < config[i].maxPoolSize}

C27_best(V) ==
  CHOOSE i \in C27_room(V) :
    \A j \in C27_room(V) \ {i} :
      \/ config[i].priority < config[j].priority
      \/ config[i].priority = config[j].priority /\ i < j

C27_PickSlot ==
  [][\A p \in Procs :
       LET r == co'[p].cur.r
           inserted == /\ co'[p].pc = "pv_create"
                       /\ r \in Rows
                       /\ vms[r].status = "absent"
           V == [vms' EXCEPT ![r] = AbsentVm]
           refused == /\ co'[p].err = capacityError(config)
                      /\ co[p].err # capacityError(config)
       IN /\ inserted =>
               /\ C27_room(V) # {}
               /\ vms'[r].status = "provisioning"
               /\ vms'[r].provider = config[C27_best(V)].name
          /\ refused =>
               /\ C27_room(vms') = {}
               /\ \A x \in Rows : vms[x].status = "absent" => vms'[x].status = "absent"
          /\ ( /\ co[p].pc = "ri_ret" /\ co[p].kind = "exec" /\ co'[p] # co[p]
               /\ ~ \E x \in Rows : vms[x].status = "ready" /\ vms[x].task_id = NULL )
               => IF C27_room(vms) = {} THEN refused ELSE inserted]_vars

\* provisionVm chose the second of two slots of equal priority because the
\* first one is at capacity.
C27_Witness ==
  /\ Len(config) = 2
  /\ config[1].priority = config[2].priority
  /\ config[1].maxPoolSize > 0
  /\ CountActive(vms, config[1].name) = config[1].maxPoolSize
  /\ \E p \in Tasks :
       /\ co[p].pc = "pv_create"
       /\ co[p].cur.r \in Rows
       /\ vms[co[p].cur.r].provider = config[2].name

C29_ReleaseOrphans ==
  \A oks \in [1 .. MaxVms -> BOOLEAN] :
    LET W1 == runReap("ro", World, oks)
        hit == orphansOf(World) \cup noTaskOf(World) \cup staleRunningOf(World)
        stale == {vms[r].task_id : r \in staleRunningOf(World)}
    IN /\ \A r \in hit :
            IF idleTimeoutOf(vms[r].provider) > 0
            THEN W1.v[r] = [vms[r] EXCEPT !.status = "ready", !.task_id = NULL, !.idle_since = now]
            ELSE /\ W1.v[r].status \in {"destroyed", "error"}
                 /\ W1.v[r].task_id = NULL
       /\ \A r \in Rows \ hit : W1.v[r] = vms[r]
       /\ \A t \in stale :
            /\ W1.t[t].status = "failed"
            /\ W1.t[t].result = "Stale task (process died)"
       /\ \A t \in Tasks \ stale : W1.t[t] = tasks[t]

\* The process died while task 1 was running on its VM; more than ten
\* minutes later the row is still assigned and the task still running.
C29_Witness ==
  \E r \in staleRunningOf(World) :
    /\ co[vms[r].task_id].pc = "done"
    /\ tasks[vms[r].task_id].status = "running"
    /\ idleTimeoutOf(vms[r].provider) > 0

\* The rows ensureWarm counts for a slot: ready or provisioning, no task.
C30_warm(V, name) ==
  {r \in Rows : V[r].provider = name /\ V[r].status \in {"ready", "provisioning"} /\ V[r].task_id = NULL}

\* C30 (ensureWarm): when a step that ends with ensureWarm (reconcile's last
\* step, acquireVm's binding) is over, every slot with minReady > 0 has at
\* least minReady rows that are ready or provisioning with no task, the rows
\* it added are provisioning rows whose createInstance is in flight, and a
\* slot with minReady <= 0 got no row.
C30_EnsureWarm ==
  [][( \/ co[RecId].pc \in {"rc_list", "rc_scan"} /\ co'[RecId].pc = "rc_ret"
       \/ \E p \in Procs : co[p].pc \in {"bind", "ri_ret"} /\ co'[p].pc = "assign" )
     => \A i \in DOMAIN config :
          LET new == {r \in Rows : vms[r].status = "absent" /\ vms'[r].provider = config[i].name}
          IN IF config[i].minReady > 0
             THEN /\ Cardinality(C30_warm(vms', config[i].name)) >= config[i].minReady
                  /\ \A r \in new : vms'[r].status = "provisioning" /\ r \in pend'
             ELSE new = {}]_vars

\* C31 (reconcile drift correction): when getInstance has answered for an
\* active row, the row is destroyed only if the provider does not know the
\* instance, it becomes ready only if it was provisioning and the provider
\* reports it active, and otherwise its status is as before.
C31_ReconcileDrift ==
  [][(co[RecId].pc = "rc_get" /\ co'[RecId] # co[RecId]) =>
       LET vm == co[RecId].cur
           r == vm.r
           known == vm.real /\ inst[r] \in {"pending", "active"}
       IN Match(vms, vm) =>
            IF ~known THEN vms'[r].status = "destroyed"
            ELSE IF vms[r].status = "provisioning" /\ inst'[r] = "active" /\ faults' = faults
            THEN vms'[r].status = "ready"
            ELSE vms'[r].status = vms[r].status]_vars

\* C32 (provider scan): reconcile's scan never calls destroyInstance on an
\* instance whose VM row is provisioning, ready or assigned, the row of a
\* createInstance that has not returned yet included.
C32_ScanSparesOwned ==
  [][(co'[RecId].pc = "rc_scan" /\ co'[RecId] # co[RecId]) =>
       vms'[co'[RecId].cur.r].status \notin Active]_vars

\* C33 (order within a task): a task becomes running, with started_at set,
\* only in the step in which the launch of the wrapper succeeded on a VM bound
\* to it; a poll loop starts only for a task that has been marked running; a
\* task is completed or failed by collectResults only after its poll loop saw
\* the done sentinel; an executor's finally block releases the VM only when
\* the task is completed or failed.
C33_TaskOrder ==
  [][/\ \A t \in Tasks :
          (tasks'[t].status = "running" /\ tasks[t].status # "running") =>
            /\ tasks'[t].started_at # NULL
            /\ tasks[t].vm_id # NULL
            /\ \E p \in Procs : /\ co[p].pc = "launch" /\ co[p].task = t
                                 /\ co[p].vm.r \in Rows
                                 /\ faults' = faults
                                 /\ co'[p].pc = "probe"
     /\ \A t \in Tasks : tasks'[t].status = "running" => tasks'[t].started_at # NULL
     /\ \A p \in Procs :
          /\ (co'[p].pc = "probe" /\ co[p].pc \notin Polling) =>
               tasks'[co'[p].task].started_at # NULL
          /\ (co[p].pc = "collect" /\ co'[p].pc = "release") =>
               /\ co[p].isDone
               /\ tasks'[co[p].task].status \in {"completed", "failed"}
          /\ ( /\ co[p].pc \in {"release", "catch"}
               /\ co'[p] # co[p]
               /\ co[p].vm.r \in Rows
               /\ vms'[co[p].vm.r] # vms[co[p].vm.r] ) =>
               tasks'[co[p].task].status \in {"completed", "failed"}]_vars

\* A task went through all five steps: it completed through collectResults
\* and its executor has released the VM it ran on.
C33_Witness ==
  \E t \in Tasks :
    /\ tasks[t].status = "completed"
    /\ tasks[t].started_at # NULL
    /\ co[t].pc = "done"
    /\ tasks[t].vm_id # NULL
    /\ vms[tasks[t].vm_id].status \in {"ready", "destroyed"}
    /\ \E i \in DOMAIN events[t] : events[t][i].type = "task_end"

\* A decimal integer: an optional minus sign and then digits only.
C34_isInt(s) ==
  LET body == IF s # <<>> /\ Head(s) = "-" THEN Tail(s) ELSE s
  IN body # <<>> /\ \A i \in DOMAIN body : isDigit(body[i])

C34_value(s) ==
  IF Head(s) = "-" THEN 0 - digitPrefix(Tail(s), 0) ELSE digitPrefix(s, 0)

\* C34 (exit code from the sentinel): collectResults stores N when the
\* sentinel's text is the decimal integer N and 1 when it is anything else;
\* the task is completed exactly when that code is 0 and failed otherwise,
\* with the diff-stat or 'exit code N' as result.
C34_ExitCode ==
  [][\A p \in Procs :
       (co[p].pc = "collect" /\ co'[p].pc = "release") =>
         LET t == co[p].task
             text == trim(co'[p].sentinel)
             N == IF C34_isInt(text) THEN C34_value(text) ELSE 1
         IN /\ tasks'[t].exit_code = <<N>>
            /\ tasks'[t].status = IF N = 0 THEN "completed" ELSE "failed"
            /\ tasks'[t].result \in {"diff-stat", "exit code " \o ToString(N)}]_vars

\* C35: a plan-first wrapper that has written the sentinel ran the agent first
\* with the PLAN context; without plan.md after phase 1 (whatever phase 1
\* exited with) it then ran the agent once with the original context; with
\* plan.md it reset the working tree and ran the agent with the EXECUTE
\* context; and the sentinel holds the exit code of the last run performed.
C35_PlanFirst ==
  (wrapper.pc = "done" /\ wrapper.planFirst) =>
     /\ wrapper.runs # <<>> /\ wrapper.runs[1] = "PLAN"
     /\ ~wrapper.planMd => wrapper.runs = <<"PLAN", "ORIGINAL">>
     /\ wrapper.planMd => wrapper.reset /\ wrapper.runs = <<"PLAN", "EXECUTE">>
     /\ wrapper.done = <<ToString(wrapper.last), " ">>

\* C36 (release respects ownership): the releaseVm of a task's executor (the
\* finally block of executeTask / resumeTask) leaves alone a VM that is by
\* then assigned to a different task: the row stays assigned to that task.
C36_ReleaseOwnership ==
  [][\A p \in Tasks \cup Resumers :
       (co[p].pc \in {"release", "catch"} /\ co'[p] # co[p] /\ co[p].vm.r \in Rows) =>
         LET r == co[p].vm.r IN
         (vms[r].status = "assigned" /\ vms[r].task_id \notin {NULL, co[p].task}) =>
           (vms'[r].status = "assigned" /\ vms'[r].task_id = vms[r].task_id)]_vars

\* C37 (idle reaping is never early): a step that starts the destruction of a
\* ready, idle VM (reapIdleVms or a scheduleIdleReap timer) finds that the time
\* since the row's current idle_since is at least the slot's idleTimeoutMs.
C37_NoEarlyReap ==
  [][\A r \in Rows :
       (vms[r].status = "ready" /\ vms[r].idle_since # NULL /\ vms'[r].status = "destroying") =>
         now - vms[r].idle_since >= idleTimeoutOf(vms[r].provider)]_vars

\* A row that ensureWarm's provisionVmForSlot inserted, whose createInstance
\* returned and whose instance is active at the provider.
C38_prewarmed(r) ==
  /\ vms[r].status = "provisioning" /\ vms[r].real /\ r \notin pend
  /\ inst[r] = "active"
  /\ \A p \in Procs : ~(co[p].pc \in {"pv_create", "pv_wait", "pv_cleanup"} /\ co[p].cur.r = r)

\* C38 (pre-warm liveness): such a row eventually becomes ready, without a
\* reconcile call.
C38_PrewarmLive ==
  \A r \in Rows : C38_prewarmed(r) ~> (vms[r].status = "ready")

\* C39 (one executor per task): at any time at most one coroutine (the
\* executeTask of the task or a resumeTask spawned by recover) is in the poll +
\* collect loop of a given task.
C39_OneExecutor ==
  \A t \in Tasks :
    Cardinality({p \in Tasks \cup Resumers :
                   co[p].task = t /\ co[p].pc \in Polling \cup {"collect"}}) <= 1

\* C40 (orphans never cause a capacity failure): an acquireVm that was called
\* while an orphan VM filled a slot does not throw the capacity error.
C40_OrphanNoCapacityError ==
  \A p \in Tasks : co[p].orph => co[p].err # capacityError(config)

====
